---- MODULE Spec2Model ----
(***************************************************************************)
(* A model of the stealth session and conversation engine of maistro's     *)
(* twitter integration: the RequestQueue (utils.py), the login flow        *)
(* (auth.py), mention processing (mentions.py) and the conversation        *)
(* tracker (conversation_tracker.py).                                      *)
(*                                                                         *)
(* Each subsystem has its own specification over the shared variables;     *)
(* a specification leaves the variables of the other subsystems unchanged. *)
(***************************************************************************)
EXTENDS Integers, Sequences, FiniteSets, TLC

(***************************************************************************)
(* Bounds of the model.                                                    *)
(***************************************************************************)
\* threads that call RequestQueue.add
NumSubmitters == 2
\* add() calls made in all
MaxTasks == 3
\* check_mentions() calls made in all
MaxCalls == 2
\* seconds the clock runs while mentions are checked
MaxTime == 2
\* operations begun on the tracker instances that share one file
MaxOps == 3
\* start_scheduler and stop_scheduler calls made in all
MaxSchedCalls == 3
\* random.uniform is sampled at the fractions 0/n .. n/n of its range
SampleSteps == 2
\* new ct0 values the platform sets during a run
MaxRotations == 1
MaxCheckerCalls == 3

(***************************************************************************)
(* Program constants.                                                      *)
(***************************************************************************)
\* RequestQueue.max_retries
max_retries == 3
\* login(): max_subtask_iterations
max_subtask_iterations == 10
\* _handle_two_factor_auth: max_attempts
max_attempts_2fa == 3
\* login_with_retry: the default of max_attempts, which every caller uses
max_attempts == 2

VARIABLES
    \* ---- RequestQueue (utils.py) ----
    queue,               \* self.queue: the pending execute_request closures
    processing,          \* self.processing
    consecutive_errors,  \* self.consecutive_errors
    spc,                 \* where each submitting thread is inside add()
    cur,                 \* the task of the add() call each thread is in
    ntasks,              \* add() calls begun so far
    wpc,                 \* where each worker thread is inside _process_queue
    wreq,                \* the request a worker popped
    retry_count,         \* _execute_with_retry's local of each worker
    attempts,            \* times request_func of a thread's call was called
    result,              \* the nonlocal result of a thread's call is set
    error,               \* the nonlocal error of a thread's call is set
    completed,           \* the completed event of a thread's call
    delivered,           \* what a thread's add() call gave its caller
    unstarted,           \* history: tasks appended and not yet started, in
                         \* the order add() appended them
    delayed,             \* history: _add_natural_delay has slept since the
                         \* last task ended ("none" before any task ended)
    direct,              \* threads inside a network call made outside the queue
    \* ---- TwitterAuth (auth.py) ----
    lpc,                 \* where the thread calling login() is
    cookies,             \* self.cookies and the session's cookie jar: names
    csrf_token,          \* self.csrf_token
    username,            \* self.username
    user_id,             \* self.user_id
    cache,               \* the per-account cookie cache file
    email,               \* login()'s email argument is given
    two_factor_secret,   \* login()'s two_factor_secret argument is given
    flow_data,           \* login()'s flow_data: first subtask and flow token
    iteration,           \* login()'s iteration
    attempt_2fa,         \* _handle_two_factor_auth's attempt
    login_result,        \* what login() returned
    flowRequests,        \* history: flow requests sent by this login() call
    guestRequests,       \* history: _get_guest_token calls of this login()
    callCache,           \* history: the cache file when login() was called
    callTime,            \* history: time.time() when login() was called
    \* ---- the clock ----
    now,                 \* time.time(), in seconds
    \* ---- ConversationTracker and MentionsHandler ----
    conversations,       \* self.conversations of each tracker instance
    conversations_file,  \* the <username>_conversations.json file
    processed_tweet_ids, \* MentionsHandler.processed_tweet_ids
    last_checked_id,     \* MentionsHandler.last_checked_id
    mentions_cache,      \* the <username>_mentions_cache.json file
    mpc,                 \* where the thread calling check_mentions() is
    pending,             \* the fetched mentions the loop has not reached
    mention,             \* process_mention's mention
    thread_id,           \* process_mention's thread_id
    processed_count,     \* check_mentions' processed_count
    calls,               \* check_mentions() calls begun so far
    fetched,             \* history: ids fetch_mentions returned to this call
    repeated,            \* history: the call before was given the same ids
    generated,           \* history: generate_reply calls of this call
    posted,              \* history: create_tweet calls of this call
    appended,            \* history: add_mention calls of this call
    skipped,             \* history: mentions this call skipped as processed
    replies,             \* history: the mention ids of the replies posted
    \* ---- ConversationTracker instances sharing one file ----
    tpc,                 \* where each tracker's caller is inside an operation
    tops,                \* tracker operations begun so far
    writtenBy,           \* history: the messages each instance put in the file
    saved,               \* history: the last _save_conversations call, its
                         \* instance, its memory and the file it found
    \* ---- the mentions checker (mentions.py) ----
    mentions_running,    \* _mentions_running
    mentions_pc,         \* where each _mentions_loop thread is
    checker_calls,       \* start/stop_mentions_checker calls so far
    \* ---- the tweet scheduler (scheduler.py) ----
    scheduler_running,   \* _scheduler_running
    scheduler_thread,    \* _scheduler_thread: None or a thread
    sched_pc,            \* where each _scheduler_loop thread is
    min_interval,        \* TWEET_MIN_INTERVAL, minutes
    max_interval,        \* TWEET_MAX_INTERVAL, minutes
    next_interval,       \* what _calculate_next_interval returned last
    sched_calls,         \* start_scheduler and stop_scheduler calls so far
    start_result,        \* what the last call, a start_scheduler, returned
    stop_result,         \* what the last call, a stop_scheduler, returned
    createdSinceStop,    \* history: threads created since the last
                         \* stop_scheduler call
    tweeted,             \* history: ids of the tweets the loop posted
    caught,              \* history: the loop has caught an exception
    halted,              \* history: the loops a stop_scheduler call stopped
    \* ---- TwitterAuth.login_with_retry (auth.py) ----
    rpc,                 \* where the thread calling login_with_retry is
    attempt,             \* login_with_retry's attempt
    retry_result,        \* what login_with_retry returned
    warmup_failed,       \* history: the warm-up request raised
    logins,              \* history: login() calls of this login_with_retry
    delays,              \* history: sleeps between attempts
    heldAtCall,          \* history: the cookies held when login() was called
    \* ---- TwitterAuth.make_request (auth.py) ----
    status,              \* the status of the response to each thread's call
    recovery,            \* what execute_request did about that status
    built,               \* the x-csrf-token of the headers each thread
                         \* built for its next make_request call
    ct0_value,           \* which value the ct0 cookie has: the count of
                         \* new values the platform has set
    \* ---- TwitterAuth.login: DenyLoginSubtask ----
    error_message,       \* login()'s error_message
    \* ---- TwitterAuth._handle_two_factor_auth ----
    code,                \* its code: the number of failed submissions
                         \* that came before totp.now() gave it
    submitted            \* history: the codes this call has submitted

queueVars == <<queue, processing, consecutive_errors, spc, cur, ntasks, wpc,
               wreq, retry_count, attempts, result, error, completed,
               delivered, unstarted, delayed>>

netVars == <<direct>>

authVars == <<lpc, cookies, csrf_token, username, user_id, cache, email,
              two_factor_secret, flow_data, iteration, attempt_2fa,
              login_result, flowRequests, guestRequests, callCache,
              callTime>>

trackVars == <<conversations, conversations_file, processed_tweet_ids,
               last_checked_id, mentions_cache, mpc, pending, mention,
               thread_id, processed_count, calls, fetched, repeated,
               generated, posted, appended, skipped, replies>>

checkerVars == <<mentions_running, mentions_pc, checker_calls>>

\* the trackers' bookkeeping, and with it the mentions checker's globals,
\* which no tracker operation touches
storeVars == <<tpc, tops, writtenBy, saved, checkerVars>>

schedVars == <<scheduler_running, scheduler_thread, sched_pc, min_interval,
               max_interval, next_interval, sched_calls, start_result,
               stop_result, createdSinceStop, tweeted, caught, halted>>

retryVars == <<rpc, attempt, retry_result, warmup_failed, logins, delays,
               heldAtCall>>

requestVars == <<status, recovery, built, ct0_value>>

denyVars == <<error_message, code, submitted>>

\* the variables of the tracker instances, the scheduler, login_with_retry,
\* make_request and the denied login
restVars == <<storeVars, schedVars, retryVars, requestVars, denyVars>>

vars == <<queueVars, netVars, authVars, now, trackVars, restVars>>

(***************************************************************************)
(* RequestQueue                                                            *)
(***************************************************************************)
Submitters == 1..NumSubmitters

\* the add() calls in the order of their append; a worker thread is named by
\* the call that started it (add starts at most one thread)
TaskIds == 1..MaxTasks

\* a queued closure: the submitting thread and the number of its add() call
Tasks == Submitters \X TaskIds

NoTask == <<0, 0>>

\* worker positions inside the try block of _process_queue
InLoop == {"loop", "call", "running", "delay", "backoff"}

InitQueue ==
    /\ queue = <<>>
    /\ processing = FALSE
    /\ consecutive_errors = 0
    /\ spc = [s \in Submitters |-> "idle"]
    /\ cur = [s \in Submitters |-> NoTask]
    /\ ntasks = 0
    /\ wpc = [w \in TaskIds |-> "none"]
    /\ wreq = [w \in TaskIds |-> NoTask]
    /\ retry_count = [w \in TaskIds |-> 0]
    /\ attempts = [s \in Submitters |-> 0]
    /\ result = [s \in Submitters |-> FALSE]
    /\ error = [s \in Submitters |-> FALSE]
    /\ completed = [s \in Submitters |-> FALSE]
    /\ delivered = [s \in Submitters |-> "none"]
    /\ unstarted = <<>>
    /\ delayed = "none"

\* add(): fresh result, error and completed, then the block under self.lock:
\* append the closure and start a worker thread when none is processing
AddEnqueue(s) ==
    /\ spc[s] = "idle"
    /\ ~direct[s]
    /\ ntasks < MaxTasks
    /\ LET t == <<s, ntasks + 1>> IN
        /\ queue' = Append(queue, t)
        /\ unstarted' = Append(unstarted, t)
        /\ cur' = [cur EXCEPT ![s] = t]
        /\ wpc' = IF ~processing THEN [wpc EXCEPT ![ntasks + 1] = "entry"]
                  ELSE wpc
    /\ ntasks' = ntasks + 1
    /\ spc' = [spc EXCEPT ![s] = "waiting"]
    /\ attempts' = [attempts EXCEPT ![s] = 0]
    /\ result' = [result EXCEPT ![s] = FALSE]
    /\ error' = [error EXCEPT ![s] = FALSE]
    /\ completed' = [completed EXCEPT ![s] = FALSE]
    /\ delivered' = [delivered EXCEPT ![s] = "none"]
    /\ UNCHANGED <<processing, consecutive_errors, wreq, retry_count,
                   delayed>>
    /\ UNCHANGED <<netVars, authVars, now, trackVars, restVars>>

\* add(): completed.wait(), then raise the error or return the result
AddReturn(s) ==
    /\ spc[s] = "waiting"
    /\ completed[s]
    /\ delivered' = [delivered EXCEPT ![s] =
                        IF error[s] THEN "raised" ELSE "result"]
    /\ spc' = [spc EXCEPT ![s] = "idle"]
    /\ UNCHANGED <<queue, processing, consecutive_errors, cur, ntasks, wpc,
                   wreq, retry_count, attempts, result, error, completed,
                   unstarted, delayed>>
    /\ UNCHANGED <<netVars, authVars, now, trackVars, restVars>>

ProcessQueueEntryNoCheck(w) ==
    /\ wpc[w] = "entry"
    /\ processing' = TRUE
    /\ wpc' = [wpc EXCEPT ![w] = "loop"]
    /\ UNCHANGED <<queue, consecutive_errors, spc, cur, ntasks, wreq,
                   retry_count, attempts, result, error, completed, delivered,
                   unstarted, delayed>>
    /\ UNCHANGED <<netVars, authVars, now, trackVars, restVars>>

\* _process_queue, the first block under self.lock: return when another
\* worker is processing (the thread ends), else become the processing worker
ProcessQueueEntry(w) ==
    /\ wpc[w] = "entry"
    /\ IF processing
         THEN /\ wpc' = [wpc EXCEPT ![w] = "none"]
              /\ UNCHANGED processing
         ELSE /\ processing' = TRUE
              /\ wpc' = [wpc EXCEPT ![w] = "loop"]
    /\ UNCHANGED <<queue, consecutive_errors, spc, cur, ntasks, wreq,
                   retry_count, attempts, result, error, completed, delivered,
                   unstarted, delayed>>
    /\ UNCHANGED <<netVars, authVars, now, trackVars, restVars>>

PopLast(q) == <<q[Len(q)], SubSeq(q, 1, Len(q) - 1)>>

\* self.queue.pop(0): the request taken and the queue left
PopRequest(q) == <<Head(q), Tail(q)>>

TakeNextKeepFlag(w) ==
    /\ wpc[w] \in {"loop", "handler"}
    /\ IF wpc[w] = "handler" \/ queue = <<>>
         THEN /\ wpc' = [wpc EXCEPT ![w] = "none"]
              /\ wreq' = [wreq EXCEPT ![w] = NoTask]
              /\ UNCHANGED <<processing, queue, retry_count>>
         ELSE /\ queue' = PopRequest(queue)[2]
              /\ wreq' = [wreq EXCEPT ![w] = PopRequest(queue)[1]]
              /\ retry_count' = [retry_count EXCEPT ![w] = 0]
              /\ wpc' = [wpc EXCEPT ![w] = "call"]
              /\ UNCHANGED processing
    /\ UNCHANGED <<consecutive_errors, spc, cur, ntasks, attempts, result,
                   error, completed, delivered, unstarted, delayed>>
    /\ UNCHANGED <<netVars, authVars, now, trackVars, restVars>>

\* _process_queue, the block under self.lock at the top of the loop: switch
\* off and leave when the queue is empty (the thread ends), else pop the
\* first request; and the except block, which switches off after an
\* exception escaped the loop
TakeNext(w) ==
    /\ wpc[w] \in {"loop", "handler"}
    /\ IF wpc[w] = "handler" \/ queue = <<>>
         THEN /\ processing' = FALSE
              /\ wpc' = [wpc EXCEPT ![w] = "none"]
              /\ wreq' = [wreq EXCEPT ![w] = NoTask]
              /\ UNCHANGED <<queue, retry_count>>
         ELSE /\ queue' = PopRequest(queue)[2]
              /\ wreq' = [wreq EXCEPT ![w] = PopRequest(queue)[1]]
              /\ retry_count' = [retry_count EXCEPT ![w] = 0]
              /\ wpc' = [wpc EXCEPT ![w] = "call"]
              /\ UNCHANGED processing
    /\ UNCHANGED <<consecutive_errors, spc, cur, ntasks, attempts, result,
                   error, completed, delivered, unstarted, delayed>>
    /\ UNCHANGED <<netVars, authVars, now, trackVars, restVars>>

\* the sequence q without its element x
Without(q, x) == SelectSeq(q, LAMBDA y : y # x)

\* _execute_with_retry calls request_func(), the execute_request closure,
\* which calls the submitter's callable
StartAttempt(w) ==
    /\ wpc[w] = "call"
    /\ wpc' = [wpc EXCEPT ![w] = "running"]
    /\ attempts' = [attempts EXCEPT ![wreq[w][1]] = @ + 1]
    /\ unstarted' = Without(unstarted, wreq[w])
    /\ UNCHANGED <<queue, processing, consecutive_errors, spc, cur, ntasks,
                   wreq, retry_count, result, error, completed, delivered,
                   delayed>>
    /\ UNCHANGED <<netVars, authVars, now, trackVars, restVars>>

\* a loop that takes its next request as soon as one has ended
NoNaturalDelay(pc) == "loop"

\* _process_queue, line 86: self._add_natural_delay() after each request
NaturalDelay(pc) == pc

\* whether the execute_request closure raises when the callable raised: its
\* except clause keeps every Exception in the nonlocal error
ExecuteRequestRaises(raised) == FALSE

\* the callable returns or raises; execute_request records the outcome and
\* sets completed; _execute_with_retry resets the error counter when the
\* closure returned and otherwise counts the failure and either backs off
\* for another attempt or re-raises into _process_queue's except block
AttemptOutcome(w, raised) ==
    /\ result' = [result EXCEPT ![wreq[w][1]] = IF raised THEN @ ELSE TRUE]
    /\ error' = [error EXCEPT ![wreq[w][1]] = IF raised THEN TRUE ELSE @]
    /\ completed' = [completed EXCEPT ![wreq[w][1]] = TRUE]
    /\ IF ~ExecuteRequestRaises(raised)
         THEN /\ consecutive_errors' = 0
              /\ wpc' = [wpc EXCEPT ![w] = NaturalDelay("delay")]
              /\ UNCHANGED retry_count
         ELSE /\ retry_count' = [retry_count EXCEPT ![w] = @ + 1]
              /\ consecutive_errors' = consecutive_errors + 1
              /\ wpc' = [wpc EXCEPT ![w] =
                            IF retry_count[w] + 1 <= max_retries
                              THEN "backoff" ELSE "handler"]
    /\ delayed' = "no"
    /\ UNCHANGED <<queue, processing, spc, cur, ntasks, wreq, attempts,
                   delivered, unstarted>>

\* the end of an attempt of any callable
FinishAttempt(w) ==
    /\ wpc[w] = "running"
    /\ \E raised \in BOOLEAN : AttemptOutcome(w, raised)
    /\ UNCHANGED <<netVars, authVars, now, trackVars, restVars>>

\* time.sleep: _add_natural_delay after a request, or the backoff before
\* the next attempt
Sleep(w) ==
    /\ wpc[w] \in {"delay", "backoff"}
    /\ wpc' = [wpc EXCEPT ![w] = IF wpc[w] = "backoff" THEN "call" ELSE "loop"]
    /\ delayed' = IF wpc[w] = "delay" THEN "yes" ELSE delayed
    /\ UNCHANGED <<queue, processing, consecutive_errors, spc, cur, ntasks,
                   wreq, retry_count, attempts, result, error, completed,
                   delivered, unstarted>>
    /\ UNCHANGED <<netVars, authVars, now, trackVars, restVars>>

WorkerStep(w) ==
    \/ ProcessQueueEntry(w)
    \/ TakeNext(w)
    \/ StartAttempt(w)
    \/ FinishAttempt(w)
    \/ Sleep(w)

NextQueue ==
    \/ \E s \in Submitters : AddEnqueue(s)
    \/ \E s \in Submitters : AddReturn(s)
    \/ \E w \in TaskIds : ProcessQueueEntry(w)
    \/ \E w \in TaskIds : TakeNext(w)
    \/ \E w \in TaskIds : StartAttempt(w)
    \/ \E w \in TaskIds : FinishAttempt(w)
    \/ \E w \in TaskIds : Sleep(w)

(***************************************************************************)
(* TwitterAuth: the session state and the cookie cache                     *)
(***************************************************************************)
\* _load_cookies_from_cache: a cache older than this many seconds is expired
CacheMaxAge == 12 * 60 * 60

\* the values time.time() takes: a first start, 12 hours later, 13 hours later
TimePoints == {0, CacheMaxAge, CacheMaxAge + 60 * 60}

\* the cookies _verify_credentials asks for
essential_cookies == {"auth_token", "ct0", "twid"}

\* the cookies one response sets
CookieChoices ==
    {{}, {"auth_token"}, {"auth_token", "ct0"}, {"auth_token", "ct0", "twid"}}

NoCache ==
    [present |-> FALSE, cookies_dict |-> {}, csrf_token |-> "None",
     timestamp |-> 0]

NoFlow == [subtask |-> "none", flow_token |-> FALSE]

\* TwitterAuth.__init__ on a machine with no cookie cache; the credentials
\* of the configuration may or may not hold an email and a 2FA secret
InitAuth ==
    /\ lpc = "idle"
    /\ cookies = {}
    /\ csrf_token = "None"
    /\ username = "None"
    /\ user_id = "None"
    /\ cache = NoCache
    /\ now = 0
    /\ email \in BOOLEAN
    /\ two_factor_secret \in BOOLEAN
    /\ flow_data = NoFlow
    /\ iteration = 0
    /\ attempt_2fa = 0
    /\ login_result = "none"
    /\ flowRequests = 0
    /\ guestRequests = 0
    /\ callCache = NoCache
    /\ callTime = 0

(***************************************************************************)
(* ConversationTracker and MentionsHandler: the state after construction   *)
(***************************************************************************)
\* the tracker instances of one process: the shared one cli.py creates and
\* the one MentionsHandler.__init__ creates for itself
Trackers == {"cli", "mentions"}

\* None, for a tweet id
NoId == 0

NoThread == [kind |-> "none", t |-> 0, user |-> "None", id |-> NoId]

NoMention == [id |-> NoId, username |-> "None", in_reply_to |-> NoId]

\* no conversations file, no mentions cache file
InitTrack ==
    /\ conversations = [k \in Trackers |-> <<>>]
    /\ conversations_file = <<>>
    /\ processed_tweet_ids = {}
    /\ last_checked_id = NoId
    /\ mentions_cache = [last_checked_id |-> NoId, processed_ids |-> {}]
    /\ mpc = "idle"
    /\ pending = <<>>
    /\ mention = NoMention
    /\ thread_id = NoThread
    /\ processed_count = 0
    /\ calls = 0
    /\ fetched = {}
    /\ repeated = FALSE
    /\ generated = 0
    /\ posted = 0
    /\ appended = 0
    /\ skipped = 0
    /\ replies = <<>>

NoSave == [by |-> "none", mem |-> <<>>, file |-> <<>>]

\* no tracker operation has begun
\* the threads start_mentions_checker can create
MentionThreads == 1..MaxCheckerCalls

\* the module globals of mentions.py after import
InitChecker ==
    /\ mentions_running = FALSE
    /\ mentions_pc = [t \in MentionThreads |-> "none"]
    /\ checker_calls = 0

InitStore ==
    /\ tpc = [k \in Trackers |-> "idle"]
    /\ tops = 0
    /\ writtenBy = [k \in Trackers |-> {}]
    /\ saved = NoSave
    /\ InitChecker

\* the threads start_scheduler can create: one per call at most
SchedThreads == 1..(MaxSchedCalls + 1)

NoSchedThread == 0

NoInterval == 0 - 1

\* the module globals of scheduler.py after import, for given environment
\* variables
InitSched(settings) ==
    /\ scheduler_running = FALSE
    /\ scheduler_thread = NoSchedThread
    /\ sched_pc = [t \in SchedThreads |-> "none"]
    /\ min_interval = settings[1]
    /\ max_interval = settings[2]
    /\ next_interval = NoInterval
    /\ sched_calls = 0
    /\ start_result = NoSchedThread
    /\ stop_result = "none"
    /\ createdSinceStop = 0
    /\ tweeted = {}
    /\ caught = FALSE
    /\ halted = {}

\* _get_interval_settings: the defaults of TWEET_MIN_INTERVAL and
\* TWEET_MAX_INTERVAL
DefaultSettings == <<120, 300>>

\* login_with_retry not called yet ("idle"), or login() called without it
\* ("none")
InitRetry(pc) ==
    /\ rpc = pc
    /\ attempt = 0
    /\ retry_result = "none"
    /\ warmup_failed = FALSE
    /\ logins = 0
    /\ delays = 0
    /\ heldAtCall = {}

\* a make_request call given no headers argument
NoHeaders == 0 - 1

\* no make_request call has been answered, no headers have been built
InitRequest ==
    /\ status = [s \in Submitters |-> "none"]
    /\ recovery = [s \in Submitters |-> "none"]
    /\ built = [s \in Submitters |-> NoHeaders]
    /\ ct0_value = 0

\* login() has not read a DenyLoginSubtask and has not been challenged
InitDeny ==
    /\ error_message = "None"
    /\ code = 0
    /\ submitted = <<>>

InitRest ==
    /\ InitStore
    /\ InitSched(DefaultSettings)
    /\ InitRetry("none")
    /\ InitRequest
    /\ InitDeny

\* the state after construction: one initial state of the queue, with the
\* session of an account that has an email and a 2FA secret configured
InitQ ==
    /\ InitQueue
    /\ direct = [s \in Submitters |-> FALSE]
    /\ InitAuth
    /\ email
    /\ two_factor_secret
    /\ InitTrack
    /\ InitRest

SpecQueue == InitQ /\ [][NextQueue]_vars

\* the scheduler keeps running threads that can take a step, and every
\* callable terminates: a step of a worker or the return of an add() call
\* that stays possible is eventually taken (this asks less of the scheduler
\* than fairness to each thread)
QueueProgress ==
    \/ \E s \in Submitters : AddReturn(s)
    \/ \E w \in TaskIds : WorkerStep(w)

FairQueue == WF_vars(QueueProgress)

FairSpecQueue == InitQ /\ [][NextQueue]_vars /\ FairQueue

(***************************************************************************)
(* The components' network calls.  The scheduler thread posts with         *)
(* TwitterPost (post.py), whose every call is auth.make_request, that is   *)
(* RequestQueue.add.  The mentions thread fetches with auth.make_request   *)
(* and replies with APITwitterPost.create_tweet (api_post.py), which calls *)
(* requests.post itself.                                                   *)
(***************************************************************************)
\* the component a thread runs: _scheduler_loop, or _mentions_loop
Component(s) == IF s = 1 THEN "scheduler" ELSE "mentions"

\* MentionsHandler.process_mention reaches poster.create_tweet for a mention
\* that fetch_mentions returned: APITwitterPost.create_tweet sends
\* requests.post from the calling thread
ReplyPostStart(s) ==
    /\ Component(s) = "mentions"
    /\ spc[s] = "idle"
    /\ delivered[s] = "result"
    /\ ~direct[s]
    /\ direct' = [direct EXCEPT ![s] = TRUE]
    /\ UNCHANGED <<queueVars, authVars, now, trackVars, restVars>>

\* requests.post returns or raises
ReplyPostEnd(s) ==
    /\ direct[s]
    /\ direct' = [direct EXCEPT ![s] = FALSE]
    /\ UNCHANGED <<queueVars, authVars, now, trackVars, restVars>>

NextNet ==
    \/ NextQueue
    \/ \E s \in Submitters : ReplyPostStart(s)
    \/ \E s \in Submitters : ReplyPostEnd(s)

SpecNet == InitQ /\ [][NextNet]_vars

(***************************************************************************)
(* TwitterAuth.login (auth.py).  A flow request is auth.make_request       *)
(* through _execute_flow_task; the thread calling login() blocks on it, so *)
(* request and response are one step.  The server's answer is any of       *)
(* FlowResponses.                                                          *)
(***************************************************************************)
ServerSubtasks ==
    {"DenyLoginSubtask", "LoginTwoFactorAuthChallenge",
     "AccountDuplicationCheck", "LoginAcid", "LoginSuccessSubtask",
     "UnknownSubtask", "none"}

\* what a flow request gives: make_request raises (a status error, a
\* timeout), or the JSON has a first subtask or none, and a flow_token or
\* none; either way the response may set cookies
FlowResponses ==
    {r \in [raises : BOOLEAN, subtask : ServerSubtasks, flow_token : BOOLEAN,
            cookies : CookieChoices] :
        r.raises => (r.subtask = "none" /\ ~r.flow_token)}

\* _update_cookies: the jar and the Set-Cookie header go into self.cookies,
\* and a ct0 cookie becomes the CSRF token
UpdateCookies(c, csrf, set) ==
    [cookies |-> c \cup set,
     csrf_token |-> IF "ct0" \in (c \cup set) THEN "tok" ELSE csrf]

\* _load_cookies_from_cache with its age test left out
CacheNeverExpired(age) == FALSE

\* _load_cookies_from_cache: the age test
CacheExpired(age) == age > CacheMaxAge

\* _load_cookies_from_cache: what it returns and leaves in the session
LoadCookiesFromCache(file, t, c, csrf) ==
    IF ~file.present \/ CacheExpired(t - file.timestamp)
    THEN [ok |-> FALSE, cookies |-> c, csrf_token |-> csrf]
    ELSE [ok |-> /\ file.cookies_dict # {}
                 /\ "auth_token" \in file.cookies_dict
                 /\ file.csrf_token # "None",
          cookies |-> file.cookies_dict,
          csrf_token |-> file.csrf_token]

VerifyCredentials(c) == essential_cookies \subseteq c

\* _save_cookies_to_cache
SaveCookiesToCache(c, csrf, t) ==
    [present |-> TRUE, cookies_dict |-> c, csrf_token |-> csrf,
     timestamp |-> t]

\* the while condition of login() without its safety limit
LoopContinuesUnbounded(fd, it) == fd.subtask # "none"

\* the while condition of login()
LoopContinues(fd, it) ==
    fd.subtask # "none" /\ it < max_subtask_iterations

\* login() up to the guest token: the cached session is used if it loads and
\* verifies, else the cookies are cleared
LoginStart ==
    /\ lpc = "idle"
    /\ rpc \in {"none", "login"}
    /\ callCache' = cache
    /\ callTime' = now
    /\ LET loaded == LoadCookiesFromCache(cache, now, cookies, csrf_token) IN
        IF loaded.ok /\ VerifyCredentials(loaded.cookies)
        THEN /\ cookies' = loaded.cookies
             /\ csrf_token' = loaded.csrf_token
             /\ username' = "username"
             /\ login_result' = "True"
             /\ lpc' = "done"
        ELSE /\ cookies' = {}
             /\ csrf_token' = loaded.csrf_token
             /\ username' = username
             /\ login_result' = "none"
             /\ lpc' = "guest"
    /\ UNCHANGED <<user_id, cache, now, email, two_factor_secret, flow_data,
                   iteration, attempt_2fa, flowRequests, guestRequests>>
    /\ UNCHANGED <<queueVars, netVars, trackVars, restVars>>

\* self._get_guest_token(): a token, or TwitterError after five attempts,
\* which login() turns into False
GuestToken ==
    /\ lpc = "guest"
    /\ guestRequests' = guestRequests + 1
    /\ \E ok \in BOOLEAN :
        IF ok
        THEN lpc' = "init" /\ login_result' = login_result
        ELSE lpc' = "done" /\ login_result' = "False"
    /\ UNCHANGED <<cookies, csrf_token, username, user_id, cache, now, email,
                   two_factor_secret, flow_data, iteration, attempt_2fa,
                   flowRequests, callCache, callTime>>
    /\ UNCHANGED <<queueVars, netVars, trackVars, restVars>>

\* one of the four flow tasks login() always sends; all but the first read
\* flow_data['flow_token'], a KeyError if the last response had none
FixedStep(from, to) ==
    /\ lpc = from
    /\ IF from # "init" /\ ~flow_data.flow_token
       THEN /\ lpc' = "done"
            /\ login_result' = "False"
            /\ UNCHANGED <<cookies, csrf_token, flow_data, flowRequests>>
       ELSE \E r \in FlowResponses :
            LET upd == UpdateCookies(cookies, csrf_token, r.cookies) IN
            /\ flowRequests' = flowRequests + 1
            /\ cookies' = upd.cookies
            /\ csrf_token' = upd.csrf_token
            /\ IF r.raises
               THEN /\ lpc' = "done"
                    /\ login_result' = "False"
                    /\ flow_data' = flow_data
               ELSE /\ lpc' = to
                    /\ login_result' = login_result
                    /\ flow_data' =
                        [subtask |-> r.subtask, flow_token |-> r.flow_token]
    /\ UNCHANGED <<username, user_id, cache, now, email, two_factor_secret,
                   iteration, attempt_2fa, guestRequests, callCache, callTime>>
    /\ UNCHANGED <<queueVars, netVars, trackVars, restVars>>

FlowInit == FixedStep("init", "js")

FlowJsInstrumentation == FixedStep("js", "user")

FlowUsername == FixedStep("user", "pass")

FlowPassword == FixedStep("pass", "loop")

\* the subtasks the loop answers with a flow request
\* a login() that answers every challenge, with or without the credential
AnswersEveryChallenge(st) ==
    st \in {"AccountDuplicationCheck", "LoginAcid",
            "LoginTwoFactorAuthChallenge"}

Answered(st) ==
    \/ st = "AccountDuplicationCheck"
    \/ st = "LoginAcid" /\ email
    \/ st = "LoginTwoFactorAuthChallenge" /\ two_factor_secret

\* the messages a DenyLoginSubtask carries in errors[0].message
DenyMessages == {"account locked", "try again later"}

\* what the value login() returns, True or False, carries of a message
ReturnedMessage(returned) == "None"

\* one evaluation of the while condition of login() and, if it holds, one
\* pass through the loop body; a 2FA challenge gets here the first attempt
\* of _handle_two_factor_auth
LoopStep ==
    /\ lpc = "loop"
    /\ LET st == flow_data.subtask IN
       IF ~LoopContinues(flow_data, iteration)
       THEN /\ lpc' = "done"
            /\ login_result' = "False"
            /\ UNCHANGED <<cookies, csrf_token, username, user_id, cache,
                           flow_data, iteration, attempt_2fa, flowRequests>>
       ELSE
       /\ iteration' = iteration + 1
       /\ IF st = "LoginSuccessSubtask"
          THEN /\ username' = "username"
               /\ IF "auth_token" \in cookies /\ csrf_token # "None"
                  THEN /\ user_id' = "username"
                       /\ cache' = SaveCookiesToCache(cookies, csrf_token, now)
                  ELSE UNCHANGED <<user_id, cache>>
               /\ lpc' = "done"
               /\ login_result' = "True"
               /\ UNCHANGED <<cookies, csrf_token, flow_data, attempt_2fa,
                              flowRequests>>
          ELSE
          /\ UNCHANGED <<username, user_id, cache>>
          /\ IF ~Answered(st) \/ ~flow_data.flow_token
             THEN /\ lpc' = "done"
                  /\ login_result' = "False"
                  /\ UNCHANGED <<cookies, csrf_token, flow_data, attempt_2fa,
                                 flowRequests>>
             ELSE \E r \in FlowResponses :
                  LET upd == UpdateCookies(cookies, csrf_token, r.cookies) IN
                  /\ flowRequests' = flowRequests + 1
                  /\ cookies' = upd.cookies
                  /\ csrf_token' = upd.csrf_token
                  /\ IF ~r.raises
                     THEN /\ flow_data' = [subtask |-> r.subtask,
                                           flow_token |-> r.flow_token]
                          /\ lpc' = "loop"
                          /\ login_result' = login_result
                          /\ attempt_2fa' = attempt_2fa
                     ELSE /\ flow_data' = flow_data
                          /\ IF st = "LoginTwoFactorAuthChallenge"
                             THEN /\ lpc' = "twofa"
                                  /\ login_result' = login_result
                                  /\ attempt_2fa' = 1
                             ELSE /\ lpc' = "done"
                                  /\ login_result' = "False"
                                  /\ attempt_2fa' = attempt_2fa
    /\ IF /\ LoopContinues(flow_data, iteration)
          /\ flow_data.subtask = "DenyLoginSubtask"
       THEN \E message \in DenyMessages : error_message' = message
       ELSE error_message' = error_message
    /\ code' = 0
    /\ submitted' = IF lpc' = "twofa" THEN <<0>> ELSE <<>>
    /\ UNCHANGED <<now, email, two_factor_secret, guestRequests, callCache,
                   callTime>>
    /\ UNCHANGED <<queueVars, netVars, trackVars, storeVars, schedVars,
                   retryVars, requestVars>>

\* a handler that submits the code it has again
KeptCode(held, failures) == held

\* line 368, code = totp.now() after the backoff sleep: the code is one
\* generated after the failures so far
NewCode(held, failures) == failures

\* _handle_two_factor_auth after a failed attempt: the backoff sleep, the
\* new code and the next attempt; the last attempt's exception goes to
\* login(), which returns False
TwoFactorRetry ==
    /\ lpc = "twofa"
    /\ code' = NewCode(code, attempt_2fa)
    /\ \E r \in FlowResponses :
        LET upd == UpdateCookies(cookies, csrf_token, r.cookies) IN
        /\ submitted' = IF r.raises THEN Append(submitted, code') ELSE <<>>
        /\ flowRequests' = flowRequests + 1
        /\ cookies' = upd.cookies
        /\ csrf_token' = upd.csrf_token
        /\ IF ~r.raises
           THEN /\ flow_data' = [subtask |-> r.subtask,
                                 flow_token |-> r.flow_token]
                /\ lpc' = "loop"
                /\ login_result' = login_result
                /\ attempt_2fa' = 0
           ELSE /\ flow_data' = flow_data
                /\ IF attempt_2fa < max_attempts_2fa - 1
                   THEN /\ lpc' = "twofa"
                        /\ login_result' = login_result
                        /\ attempt_2fa' = attempt_2fa + 1
                   ELSE /\ lpc' = "done"
                        /\ login_result' = "False"
                        /\ attempt_2fa' = 0
    /\ UNCHANGED <<username, user_id, cache, now, email, two_factor_secret,
                   iteration, guestRequests, callCache, callTime>>
    /\ UNCHANGED error_message
    /\ UNCHANGED <<queueVars, netVars, trackVars, storeVars, schedVars,
                   retryVars, requestVars>>

\* the process ends and is started again later: a new TwitterAuth, the
\* cache file as the last login() left it
Restart ==
    /\ lpc = "done"
    /\ \E t \in TimePoints : t >= now /\ now' = t
    /\ lpc' = "idle"
    /\ cookies' = {}
    /\ csrf_token' = "None"
    /\ username' = "None"
    /\ user_id' = "None"
    /\ flow_data' = NoFlow
    /\ iteration' = 0
    /\ attempt_2fa' = 0
    /\ login_result' = "none"
    /\ flowRequests' = 0
    /\ guestRequests' = 0
    /\ callCache' = NoCache
    /\ callTime' = 0
    /\ error_message' = "None"
    /\ code' = 0
    /\ submitted' = <<>>
    /\ UNCHANGED <<cache, email, two_factor_secret>>
    /\ UNCHANGED <<queueVars, netVars, trackVars, storeVars, schedVars,
                   retryVars, requestVars>>

NextLogin ==
    \/ LoginStart
    \/ GuestToken
    \/ FlowInit
    \/ FlowJsInstrumentation
    \/ FlowUsername
    \/ FlowPassword
    \/ LoopStep
    \/ TwoFactorRetry
    \/ Restart

InitLogin ==
    /\ InitQueue
    /\ direct = [s \in Submitters |-> FALSE]
    /\ InitAuth
    /\ InitTrack
    /\ InitRest

SpecLogin == InitLogin /\ [][NextLogin]_vars

(***************************************************************************)
(* TwitterAuth.login_with_retry (auth.py): the warm-up request, then up to *)
(* max_attempts calls of login(), whose steps are the ones above.          *)
(***************************************************************************)
\* what the warm-up request gives: a response, which may set cookies and
\* may have an error status, or no response; make_request raises in the
\* last two cases
WarmupResponses ==
    {r \in [received : BOOLEAN, raises : BOOLEAN,
            cookies : {{}, {"guest_id"}}] :
        ~r.received => (r.raises /\ r.cookies = {})}

\* a loop that sleeps after every failed attempt
DelayAfterEveryAttempt(a) == TRUE

\* login_with_retry, line 682
DelayAfter(a) == a < max_attempts

\* lines 657-670: the pre-login delay and the warm-up request
RetryWarmup ==
    /\ rpc = "idle"
    /\ \E r \in WarmupResponses :
        LET upd == UpdateCookies(cookies, csrf_token, r.cookies) IN
        /\ cookies' = upd.cookies
        /\ csrf_token' = upd.csrf_token
        /\ warmup_failed' = r.raises
    /\ rpc' = "loop"
    /\ UNCHANGED <<attempt, retry_result, logins, delays, heldAtCall>>
    /\ UNCHANGED <<lpc, username, user_id, cache, email, two_factor_secret,
                   flow_data, iteration, attempt_2fa, login_result,
                   flowRequests, guestRequests, callCache, callTime, now>>
    /\ UNCHANGED <<queueVars, netVars, trackVars, storeVars, schedVars,
                   requestVars, denyVars>>

\* lines 673-676: the next attempt calls login(); line 690 when the range
\* is used up
RetryAttempt ==
    /\ rpc = "loop"
    /\ IF attempt < max_attempts
       THEN /\ attempt' = attempt + 1
            /\ logins' = logins + 1
            /\ heldAtCall' = cookies
            /\ rpc' = "login"
            /\ lpc' = "idle"
            /\ flow_data' = NoFlow
            /\ iteration' = 0
            /\ attempt_2fa' = 0
            /\ login_result' = "none"
            /\ flowRequests' = 0
            /\ guestRequests' = 0
            /\ retry_result' = retry_result
       ELSE /\ retry_result' = "False"
            /\ rpc' = "done"
            /\ UNCHANGED <<attempt, logins, heldAtCall, lpc, flow_data,
                           iteration, attempt_2fa, login_result,
                           flowRequests, guestRequests>>
    /\ UNCHANGED <<warmup_failed, delays>>
    /\ UNCHANGED <<cookies, csrf_token, username, user_id, cache, email,
                   two_factor_secret, callCache, callTime, now>>
    /\ error_message' = IF attempt < max_attempts THEN "None"
                        ELSE error_message
    /\ code' = IF attempt < max_attempts THEN 0 ELSE code
    /\ submitted' = IF attempt < max_attempts THEN <<>> ELSE submitted
    /\ UNCHANGED <<queueVars, netVars, trackVars, storeVars, schedVars,
                   requestVars>>

\* lines 678-686: login() has returned
RetryAfterLogin ==
    /\ rpc = "login"
    /\ lpc = "done"
    /\ IF login_result = "True"
       THEN /\ retry_result' = "True"
            /\ rpc' = "done"
            /\ delays' = delays
       ELSE /\ retry_result' = retry_result
            /\ rpc' = "loop"
            /\ delays' = IF DelayAfter(attempt) THEN delays + 1 ELSE delays
    /\ UNCHANGED <<attempt, warmup_failed, logins, heldAtCall>>
    /\ UNCHANGED <<authVars, now>>
    /\ UNCHANGED <<queueVars, netVars, trackVars, storeVars, schedVars,
                   requestVars, denyVars>>

NextRetry ==
    \/ RetryWarmup
    \/ RetryAttempt
    \/ RetryAfterLogin
    \/ LoginStart
    \/ GuestToken
    \/ FlowInit
    \/ FlowJsInstrumentation
    \/ FlowUsername
    \/ FlowPassword
    \/ LoopStep
    \/ TwoFactorRetry

\* login_with_retry called with an email and a 2FA secret, as cli.py does
\* for an account that has both configured
InitLoginWithRetry ==
    /\ InitQueue
    /\ direct = [s \in Submitters |-> FALSE]
    /\ InitAuth
    /\ email
    /\ two_factor_secret
    /\ InitTrack
    /\ InitStore
    /\ InitSched(DefaultSettings)
    /\ InitRetry("idle")
    /\ InitRequest
    /\ InitDeny

SpecRetry == InitLoginWithRetry /\ [][NextRetry]_vars

(***************************************************************************)
(* TwitterAuth.make_request (auth.py): the callable given to the queue is  *)
(* its execute_request closure.  The request, the response and what the    *)
(* closure does about the status are the end of one attempt.               *)
(***************************************************************************)
\* the ways session.request ends: a status, or an exception and no response
Statuses == {"200", "403", "429", "500", "no response"}

\* execute_request of make_request, lines 293-306: whether it raises
MakeRequestRaises(st) == st # "200"

\* lines 293-303: the guest token is fetched anew on 403, the thread sleeps
\* for retry-after on 429
RecoveryStep(st) ==
    IF st = "403" THEN "guest token"
    ELSE IF st = "429" THEN "sleep"
    ELSE "none"

\* the end of an attempt of make_request's closure: _update_cookies on the
\* response, the recovery, the return or the raise
MakeRequestFinish(w) ==
    /\ wpc[w] = "running"
    /\ \E st \in Statuses, set \in CookieChoices :
        LET upd == IF st = "no response"
                   THEN [cookies |-> cookies, csrf_token |-> csrf_token]
                   ELSE UpdateCookies(cookies, csrf_token, set) IN
        /\ cookies' = upd.cookies
        /\ csrf_token' = upd.csrf_token
        /\ \E fresh \in BOOLEAN :
            ct0_value' = IF /\ fresh
                            /\ st # "no response"
                            /\ "ct0" \in set
                            /\ ct0_value < MaxRotations
                         THEN ct0_value + 1
                         ELSE ct0_value
        /\ UNCHANGED built
        /\ status' = [status EXCEPT ![wreq[w][1]] = st]
        /\ recovery' = [recovery EXCEPT ![wreq[w][1]] = RecoveryStep(st)]
        /\ AttemptOutcome(w, MakeRequestRaises(st))
    /\ UNCHANGED <<lpc, username, user_id, cache, email, two_factor_secret,
                   flow_data, iteration, attempt_2fa, login_result,
                   flowRequests, guestRequests, callCache, callTime, now>>
    /\ UNCHANGED <<netVars, trackVars, storeVars, schedVars, retryVars,
                   denyVars>>

NextRequest ==
    \/ \E s \in Submitters : AddEnqueue(s)
    \/ \E s \in Submitters : AddReturn(s)
    \/ \E w \in TaskIds : ProcessQueueEntry(w)
    \/ \E w \in TaskIds : TakeNext(w)
    \/ \E w \in TaskIds : StartAttempt(w)
    \/ \E w \in TaskIds : MakeRequestFinish(w)
    \/ \E w \in TaskIds : Sleep(w)

SpecRequest == InitQ /\ [][NextRequest]_vars

(***************************************************************************)
(* The logged-in session used by the scheduler thread and the mentions     *)
(* thread: each builds the arguments of a make_request call, with headers  *)
(* of its own or without, and queues the call.                             *)
(***************************************************************************)
\* post.py:45-71: make_request('GET', url), no headers argument; and
\* post.py:112-133, 178 and mentions.py:274-288: the thread builds headers
\* with 'x-csrf-token': self.auth.csrf_token and passes them
BuildHeaders(s) ==
    /\ spc[s] = "idle"
    /\ csrf_token # "None"
    /\ \E own \in BOOLEAN :
        built' = [built EXCEPT ![s] = IF own THEN ct0_value ELSE NoHeaders]
    /\ UNCHANGED <<status, recovery, ct0_value>>
    /\ UNCHANGED <<queueVars, netVars, authVars, now, trackVars, storeVars,
                   schedVars, retryVars, denyVars>>

\* execute_request, auth.py:273-285: request_headers gets the session's
\* current CSRF token, and kwargs.setdefault('headers', request_headers)
\* keeps the headers the caller passed
HeadersSent(given, session) == IF given # NoHeaders THEN given ELSE session

NextPosting ==
    \/ \E s \in Submitters : BuildHeaders(s)
    \/ \E s \in Submitters : AddEnqueue(s)
    \/ \E s \in Submitters : AddReturn(s)
    \/ \E w \in TaskIds : ProcessQueueEntry(w)
    \/ \E w \in TaskIds : TakeNext(w)
    \/ \E w \in TaskIds : StartAttempt(w)
    \/ \E w \in TaskIds : MakeRequestFinish(w)
    \/ \E w \in TaskIds : Sleep(w)

\* the session after a login that succeeded (cli.py:433-443)
InitPosting ==
    /\ InitQueue
    /\ direct = [s \in Submitters |-> FALSE]
    /\ cookies = essential_cookies
    /\ csrf_token = "tok"
    /\ username = "username"
    /\ user_id = "username"
    /\ lpc = "done"
    /\ login_result = "True"
    /\ cache = NoCache
    /\ now = 0
    /\ email = TRUE
    /\ two_factor_secret = TRUE
    /\ flow_data = NoFlow
    /\ iteration = 0
    /\ attempt_2fa = 0
    /\ flowRequests = 0
    /\ guestRequests = 0
    /\ callCache = NoCache
    /\ callTime = 0
    /\ InitTrack
    /\ InitRest

SpecPosting == InitPosting /\ [][NextPosting]_vars

(***************************************************************************)
(* The session during login_with_retry (auth.py): the warm-up request goes *)
(* through the queue, and when add() has returned to the calling thread    *)
(* that thread calls login(), which is followed here up to the guest       *)
(* token.                                                                  *)
(***************************************************************************)
\* lines 666-676: make_request has returned or raised, login() is called
LoginAfterWarmup ==
    /\ \E s \in Submitters :
        /\ spc[s] = "idle"
        /\ delivered[s] # "none"
    /\ LoginStart

NextSession ==
    \/ \E s \in Submitters : AddEnqueue(s)
    \/ \E s \in Submitters : AddReturn(s)
    \/ \E w \in TaskIds : ProcessQueueEntry(w)
    \/ \E w \in TaskIds : TakeNext(w)
    \/ \E w \in TaskIds : StartAttempt(w)
    \/ \E w \in TaskIds : MakeRequestFinish(w)
    \/ \E w \in TaskIds : Sleep(w)
    \/ LoginAfterWarmup
    \/ GuestToken

SpecSession == InitQ /\ [][NextSession]_vars

(***************************************************************************)
(* ConversationTracker (conversation_tracker.py).  A store, in memory or   *)
(* in the file, is a dict: here the sequence of its threads in insertion   *)
(* order, each with its key.  A key is conversation_<id> or                *)
(* <seconds>_<username>_<id>; the two formats never give the same string,  *)
(* so a key is modelled by its parts.                                      *)
(***************************************************************************)
bot_username == "bot"

\* the bot's own tweets store_original_tweet is called for
OriginalIds == {11}

\* the conversation_id arguments of store_original_tweet: none, or the id of
\* the tweet that began the conversation the bot's tweet belongs to
ConversationIds == {NoId, 10}

\* the mentions the platform can return: a reply to the bot's tweet, a
\* tweet that replies to nothing, and its author's reply to it
MentionUniverse ==
    {[id |-> 18, username |-> "alice", in_reply_to |-> 11],
     [id |-> 19, username |-> "bob", in_reply_to |-> NoId],
     [id |-> 20, username |-> "bob", in_reply_to |-> 19]}

\* the id the platform gives the reply to a mention
ReplyId(m) == 100 + m.id

\* f"unknown_{int(time.time())}": no tweet id has this form
Placeholder(t) == 0 - (t + 1)

\* f"conversation_{conversation_id}"
ConversationKey(x) == [kind |-> "conversation", t |-> 0, user |-> "None", id |-> x]

\* f"{int(time.time())}_{username}_{tweet_id}"
MentionKey(t, u, x) == [kind |-> "mention", t |-> t, user |-> u, id |-> x]

Keys(store) == {store[i].key : i \in DOMAIN store}

KeyIndex(store, k) == CHOOSE i \in DOMAIN store : store[i].key = k

HasMessage(th, x) == \E j \in DOMAIN th.messages : th.messages[j].tweet_id = x

\* the decimal digits of an id: ids are strings in the program
RECURSIVE Digits(_)
Digits(n) == IF n < 10 THEN <<n>> ELSE Append(Digits(n \div 10), n % 10)

\* s < t for strings
RECURSIVE StrLess(_, _)
StrLess(s, t) ==
    IF t = <<>> THEN FALSE
    ELSE IF s = <<>> THEN TRUE
    ELSE IF s[1] # t[1] THEN s[1] < t[1]
    ELSE StrLess(Tail(s), Tail(t))

\* a save that writes the memory alone, without the merge
SaveMemoryOnly(mem, file) == mem

\* _save_conversations: {**existing, **self.conversations}, written to the
\* file and kept in memory
SaveConversations(mem, file) ==
    LET kept == [i \in DOMAIN file |->
                    IF file[i].key \in Keys(mem)
                    THEN mem[KeyIndex(mem, file[i].key)]
                    ELSE file[i]]
        fresh == SelectSeq(mem, LAMBDA th : th.key \notin Keys(file))
    IN  kept \o fresh

\* self.conversations[key] = thread
SetThread(store, th) ==
    IF th.key \in Keys(store)
    THEN [store EXCEPT ![KeyIndex(store, th.key)] = th]
    ELSE Append(store, th)

\* conversation_id = conversation_id or tweet_id
ConversationOf(x, c) == IF c = NoId THEN x ELSE c

\* store_original_tweet(tweet_id, text, conversation_id), up to its call
\* of _save_conversations
StoreOriginalTweetAs(mem, x, c) ==
    SetThread(mem, [key |-> ConversationKey(ConversationOf(x, c)),
                    user |-> "None",
                    messages |-> <<[tweet_id |-> x,
                                    sender |-> bot_username,
                                    is_reply_to |-> NoId]>>])

\* store_original_tweet(tweet_id, text), as create_tweet calls it: no
\* conversation_id
StoreOriginalTweetInMemory(mem, x) == StoreOriginalTweetAs(mem, x, NoId)

\* store_original_tweet(tweet_id, text)
StoreOriginalTweetIn(mem, file, x) ==
    SaveConversations(StoreOriginalTweetInMemory(mem, x), file)

\* add_mention: the scan of all threads for a message with the replied-to id
ScanForMessage(store, x) ==
    LET hits == {i \in DOMAIN store : HasMessage(store[i], x)} IN
    IF hits = {} THEN NoThread
    ELSE store[CHOOSE i \in hits : \A j \in hits : i <= j].key

\* add_mention: the thread a mention that replies to x belongs to
FindThread(store, x) ==
    IF x = NoId THEN NoThread
    ELSE IF ConversationKey(x) \in Keys(store) THEN ConversationKey(x)
    ELSE ScanForMessage(store, x)

\* add_mention up to its call of _save_conversations: the forced reload
\* of the file, the thread found or created, the message appended
AddMentionInMemory(mem, file, m, t) ==
    LET loaded == IF file # <<>> THEN file ELSE mem
        found == FindThread(loaded, m.in_reply_to)
        key == IF found # NoThread THEN found
               ELSE MentionKey(t, m.username, m.id)
        threaded ==
            IF found = NoThread
            THEN SetThread(loaded, [key |-> key, user |-> m.username,
                                    messages |-> <<>>])
            ELSE IF /\ found = ConversationKey(m.in_reply_to)
                    /\ loaded[KeyIndex(loaded, found)].user = "None"
            THEN [loaded EXCEPT ![KeyIndex(loaded, found)].user = m.username]
            ELSE loaded
        message == [tweet_id |-> m.id, sender |-> m.username,
                    is_reply_to |-> m.in_reply_to]
        added == [threaded EXCEPT ![KeyIndex(threaded, key)].messages =
                                        Append(@, message)]
    IN  [conversations |-> added, thread_id |-> key]

\* add_mention: the store it leaves in memory and in the file, and the key
\* it returns
AddMention(mem, file, m, t) ==
    LET edited == AddMentionInMemory(mem, file, m, t)
    IN  [conversations |-> SaveConversations(edited.conversations, file),
         thread_id |-> edited.thread_id]

\* add_bot_reply up to its call of _save_conversations, for a thread_id
\* that is in self.conversations
AddBotReplyInMemory(mem, key, rid) ==
    LET i == KeyIndex(mem, key)
        last == mem[i].messages[Len(mem[i].messages)]
        message == [tweet_id |-> rid, sender |-> bot_username,
                    is_reply_to |-> last.tweet_id]
    IN  [mem EXCEPT ![i].messages = Append(@, message)]

\* add_bot_reply: the store it leaves in memory and in the file
AddBotReply(mem, file, key, rid) ==
    IF key \notin Keys(mem)
    THEN [conversations |-> mem, file |-> file]
    ELSE LET merged == SaveConversations(AddBotReplyInMemory(mem, key, rid),
                                         file)
         IN  [conversations |-> merged, file |-> merged]

(***************************************************************************)
(* MentionsHandler (mentions.py).  check_mentions is run by one thread; its *)
(* steps end where it waits for the platform or for the reply generator.   *)
(***************************************************************************)
Ids(S) == {m.id : m \in S}

\* mentions.sort(key=lambda x: x["id"])
RECURSIVE SortById(_)
SortById(S) ==
    IF S = {} THEN <<>>
    ELSE LET first == CHOOSE m \in S :
                        \A o \in S \ {m} : StrLess(Digits(m.id), Digits(o.id))
         IN  <<first>> \o SortById(S \ {first})

\* a handler that takes every mention for new
NeverProcessed(id, ids) == FALSE

\* mention["id"] in self.processed_tweet_ids
AlreadyProcessed(id, ids) == id \in ids

\* check_mentions up to its loop: fetch_mentions gives the mentions the
\* platform returned, sorted, or nothing when the request failed
CheckMentionsFetch ==
    /\ mpc = "idle"
    /\ calls < MaxCalls
    /\ calls' = calls + 1
    /\ \E S \in SUBSET MentionUniverse :
        /\ pending' = SortById(S)
        /\ fetched' = Ids(S)
        /\ repeated' = (calls > 0 /\ Ids(S) = fetched)
    /\ processed_count' = 0
    /\ generated' = 0
    /\ posted' = 0
    /\ appended' = 0
    /\ skipped' = 0
    /\ mention' = NoMention
    /\ thread_id' = NoThread
    /\ mpc' = "loop"
    /\ UNCHANGED <<conversations, conversations_file, processed_tweet_ids,
                   last_checked_id, mentions_cache, replies, now>>
    /\ UNCHANGED <<queueVars, netVars, authVars, restVars>>

\* one turn of the loop of check_mentions, up to generate_reply: after the
\* last mention it returns processed_count; a processed mention is skipped;
\* any other goes to process_mention, which adds it to the tracker
CheckMentionsLoop ==
    /\ mpc = "loop"
    /\ IF pending = <<>>
       THEN /\ mpc' = "idle"
            /\ processed_count' = 0
            /\ generated' = 0
            /\ posted' = 0
            /\ appended' = 0
            /\ skipped' = 0
            /\ repeated' = FALSE
            /\ UNCHANGED <<conversations, conversations_file, pending,
                           mention, thread_id>>
       ELSE LET m == Head(pending) IN
            /\ pending' = Tail(pending)
            /\ IF \/ AlreadyProcessed(m.id, processed_tweet_ids)
                  \/ AlreadyProcessed(m.id, processed_tweet_ids)
               THEN /\ skipped' = skipped + 1
                    /\ mpc' = "loop"
                    /\ UNCHANGED <<conversations, conversations_file,
                                   mention, thread_id, appended,
                                   processed_count, generated, posted,
                                   repeated>>
               ELSE LET add == AddMention(conversations["mentions"],
                                          conversations_file, m, now) IN
                    /\ conversations' = [conversations EXCEPT
                                            !["mentions"] = add.conversations]
                    /\ conversations_file' = add.conversations
                    /\ mention' = m
                    /\ thread_id' = add.thread_id
                    /\ appended' = appended + 1
                    /\ mpc' = "generate"
                    /\ UNCHANGED <<skipped, processed_count, generated,
                                   posted, repeated>>
    /\ UNCHANGED <<processed_tweet_ids, last_checked_id, mentions_cache,
                   calls, fetched, replies, now>>
    /\ UNCHANGED <<queueVars, netVars, authVars, restVars>>

\* get_thread_context and generate_reply: a reply text, or an exception
\* (no agent, a failure of the model's API), which makes process_mention
\* return False
GenerateReply ==
    /\ mpc = "generate"
    /\ generated' = generated + 1
    /\ \E raises \in BOOLEAN :
        IF raises
        THEN mpc' = "loop" /\ mention' = NoMention /\ thread_id' = NoThread
        ELSE mpc' = "post" /\ UNCHANGED <<mention, thread_id>>
    /\ UNCHANGED <<conversations, conversations_file, processed_tweet_ids,
                   last_checked_id, mentions_cache, pending, processed_count,
                   calls, fetched, repeated, posted, appended, skipped,
                   replies, now>>
    /\ UNCHANGED <<queueVars, netVars, authVars, restVars>>

\* what poster.create_tweet can do: the request raises and nothing is
\* posted; the reply is posted and the response gives its id; the reply is
\* posted and the response is a dict without data.id; the reply is posted
\* and reading the response raises (a body that is no JSON, a body whose
\* data is null)
PostOutcomes == {"raises", "id", "no id", "shape"}

\* the reply reached the platform
ReplyPosted(outcome) == outcome # "raises"

\* poster.create_tweet, which sleeps before it posts, and the rest of
\* process_mention: the reply goes to the thread under the id the platform
\* gave or under a placeholder, the mention is marked processed, the cache
\* file is written, and then last_checked_id is raised; an exception of
\* create_tweet makes process_mention return False before any of that
CreateTweet ==
    /\ mpc = "post"
    /\ now < MaxTime
    /\ now' = now + 1
    /\ posted' = posted + 1
    /\ mpc' = "loop"
    /\ \E outcome \in PostOutcomes :
        /\ replies' = IF ReplyPosted(outcome)
                       THEN Append(replies, mention.id)
                       ELSE replies
        /\ IF outcome \in {"raises", "shape"}
           THEN UNCHANGED <<conversations, conversations_file,
                            processed_tweet_ids, last_checked_id,
                            mentions_cache, processed_count>>
           ELSE LET rid == IF outcome = "id" THEN ReplyId(mention)
                           ELSE Placeholder(now')
                    reply == AddBotReply(conversations["mentions"],
                                         conversations_file, thread_id, rid)
                IN
                /\ conversations' = [conversations EXCEPT
                                       !["mentions"] = reply.conversations]
                /\ conversations_file' = reply.file
                /\ processed_tweet_ids' = processed_tweet_ids \cup {mention.id}
                /\ mentions_cache' =
                       [last_checked_id |-> last_checked_id,
                        processed_ids |-> processed_tweet_ids']
                /\ last_checked_id' =
                       IF \/ last_checked_id = NoId
                          \/ StrLess(Digits(last_checked_id), Digits(mention.id))
                       THEN mention.id
                       ELSE last_checked_id
                /\ processed_count' = processed_count + 1
    /\ mention' = NoMention
    /\ thread_id' = NoThread
    /\ UNCHANGED <<pending, calls, fetched, repeated, generated, appended,
                   skipped>>
    /\ UNCHANGED <<queueVars, netVars, authVars, restVars>>

\* a second passes between two calls of check_mentions (inside a call the
\* clock moves with create_tweet; the seconds matter only where the same
\* mention is added to the tracker again, which takes a later call)
Tick ==
    /\ mpc = "idle"
    /\ now < MaxTime
    /\ now' = now + 1
    /\ UNCHANGED <<queueVars, netVars, authVars, trackVars, restVars>>

\* store_original_tweet on the shared tracker, for a tweet of the bot that
\* is not yet in it
StoreOriginalTweet ==
    /\ \E x \in OriginalIds :
        /\ ConversationKey(x) \notin Keys(conversations["cli"])
        /\ LET merged == StoreOriginalTweetIn(conversations["cli"],
                                              conversations_file, x) IN
            /\ conversations' = [conversations EXCEPT !["cli"] = merged]
            /\ conversations_file' = merged
    /\ UNCHANGED <<processed_tweet_ids, last_checked_id, mentions_cache, mpc,
                   pending, mention, thread_id, processed_count, calls,
                   fetched, repeated, generated, posted, appended, skipped,
                   replies, now>>
    /\ UNCHANGED <<queueVars, netVars, authVars, restVars>>

NextMentions ==
    \/ CheckMentionsFetch
    \/ CheckMentionsLoop
    \/ GenerateReply
    \/ CreateTweet
    \/ Tick
    \/ StoreOriginalTweet

SpecMentions == InitQ /\ [][NextMentions]_vars

(***************************************************************************)
(* Two ConversationTracker instances on one conversations file             *)
(* (conversation_tracker.py).  An operation edits the instance's memory    *)
(* and then calls _save_conversations; another instance can run between    *)
(* the two.  _save_conversations reads and writes the file in one step.    *)
(***************************************************************************)
mentionsVars == <<processed_tweet_ids, last_checked_id, mentions_cache, mpc,
                  pending, mention, thread_id, processed_count, calls,
                  fetched, repeated, generated, posted, appended, skipped,
                  replies>>

\* the messages of a store, each with the key of its thread
Items(store) ==
    UNION {{<<store[i].key, store[i].messages[j].tweet_id>> :
                j \in DOMAIN store[i].messages} : i \in DOMAIN store}

\* an operation begins: it leaves the edited store in memory
BeginOperation(k, edited) ==
    /\ tpc[k] = "idle"
    /\ tops < MaxOps
    /\ tops' = tops + 1
    /\ conversations' = [conversations EXCEPT ![k] = edited]
    /\ tpc' = [tpc EXCEPT ![k] = "save"]
    /\ saved' = NoSave
    /\ UNCHANGED <<conversations_file, writtenBy, mentionsVars, now>>
    /\ UNCHANGED checkerVars
    /\ UNCHANGED <<queueVars, netVars, authVars, schedVars, retryVars,
                   requestVars, denyVars>>

\* store_original_tweet, lines 99-116, for a tweet of the bot no instance
\* has stored, with or without a conversation_id
TrackerStoreOriginalTweet(k) ==
    \E x \in OriginalIds, c \in ConversationIds :
        /\ \A i \in DOMAIN conversations_file :
                ~HasMessage(conversations_file[i], x)
        /\ \A j \in Trackers : \A i \in DOMAIN conversations[j] :
                ~HasMessage(conversations[j][i], x)
        /\ BeginOperation(k, StoreOriginalTweetAs(conversations[k], x, c))

\* add_mention, lines 130-212
TrackerAddMention(k) ==
    \E m \in MentionUniverse :
        BeginOperation(k, AddMentionInMemory(conversations[k],
                                             conversations_file, m,
                                             now).conversations)

\* add_bot_reply, lines 231-245, for a thread of this instance whose last
\* message is a mention
TrackerAddBotReply(k) ==
    \E i \in DOMAIN conversations[k] :
        LET th == conversations[k][i]
            last == th.messages[Len(th.messages)] IN
        /\ last.sender # bot_username
        /\ BeginOperation(k, AddBotReplyInMemory(conversations[k], th.key,
                                                 100 + last.tweet_id))

\* the operation's call of _save_conversations
TrackerSave(k) ==
    /\ tpc[k] = "save"
    /\ LET merged == SaveConversations(conversations[k], conversations_file) IN
        /\ conversations_file' = merged
        /\ conversations' = [conversations EXCEPT ![k] = merged]
        /\ writtenBy' = [writtenBy EXCEPT
                            ![k] = @ \cup (Items(merged) \
                                           Items(conversations_file))]
    /\ saved' = [by |-> k, mem |-> conversations[k],
                 file |-> conversations_file]
    /\ tpc' = [tpc EXCEPT ![k] = "idle"]
    /\ UNCHANGED <<tops, mentionsVars, now>>
    /\ UNCHANGED checkerVars
    /\ UNCHANGED <<queueVars, netVars, authVars, schedVars, retryVars,
                   requestVars, denyVars>>

NextTracker ==
    \/ \E k \in Trackers : TrackerStoreOriginalTweet(k)
    \/ \E k \in Trackers : TrackerAddMention(k)
    \/ \E k \in Trackers : TrackerAddBotReply(k)
    \/ \E k \in Trackers : TrackerSave(k)
    \/ Tick

SpecTracker == InitQ /\ [][NextTracker]_vars

(***************************************************************************)
(* The tweet scheduler (scheduler.py): start_scheduler and stop_scheduler  *)
(* are called by one thread, every _scheduler_loop runs in a thread of its *)
(* own.  A loop thread's steps end where it sleeps or where another thread *)
(* can see the flag it wrote.                                              *)
(***************************************************************************)
\* the environment settings: 10 to 20 minutes, the defaults, a maximum
\* below the minimum, a maximum equal to the minimum
IntervalSettings == {<<10, 20>>, DefaultSettings, <<20, 10>>, <<10, 10>>}

\* the value kept as maximum when the guard of lines 62-63 is left out
ConfiguredMax(min_minutes, max_minutes) == max_minutes

\* _calculate_next_interval, lines 62-63
EffectiveMax(min_minutes, max_minutes) ==
    IF max_minutes <= min_minutes THEN min_minutes + 120 ELSE max_minutes

\* _calculate_next_interval: random.uniform(a, b) is a + (b - a) * random(),
\* taken at random() = r / SampleSteps, then minutes * 60
CalculateNextInterval(min_minutes, max_minutes, r) ==
    LET b == EffectiveMax(min_minutes, max_minutes) IN
    ((min_minutes * SampleSteps + (b - min_minutes) * r) * 60) \div SampleSteps

\* a loop thread that has been started and has not ended
Alive(t) == sched_pc[t] \notin {"none", "stopped", "died"}

\* the thread is inside _scheduler_loop, past the line that sets the flag
LoopRunning(t) == sched_pc[t] \in {"first", "test", "sleep", "cooldown"}

\* TwitterPost.__init__ (post.py:23)
Authenticated == csrf_token # "None" /\ username # "None"

\* start_scheduler
StartScheduler ==
    /\ sched_calls < MaxSchedCalls
    /\ sched_calls' = sched_calls + 1
    /\ stop_result' = "none"
    /\ IF scheduler_running
       THEN /\ start_result' = scheduler_thread
            /\ UNCHANGED <<scheduler_thread, sched_pc, createdSinceStop>>
       ELSE LET t == CHOOSE u \in SchedThreads :
                        /\ sched_pc[u] = "none"
                        /\ \A v \in SchedThreads :
                                sched_pc[v] = "none" => u <= v IN
            /\ scheduler_thread' = t
            /\ sched_pc' = [sched_pc EXCEPT ![t] = "start"]
            /\ start_result' = t
            /\ createdSinceStop' = createdSinceStop + 1
    /\ UNCHANGED <<scheduler_running, min_interval, max_interval,
                   next_interval, tweeted, caught, halted>>
    /\ UNCHANGED <<queueVars, netVars, authVars, now, trackVars, storeVars,
                   retryVars, requestVars, denyVars>>

\* stop_scheduler
StopScheduler ==
    /\ sched_calls < MaxSchedCalls
    /\ sched_calls' = sched_calls + 1
    /\ start_result' = NoSchedThread
    /\ createdSinceStop' = 0
    /\ IF scheduler_running
       THEN /\ scheduler_running' = FALSE
            /\ stop_result' = "True"
            /\ halted' = halted \cup {t \in SchedThreads : LoopRunning(t)}
       ELSE /\ scheduler_running' = scheduler_running
            /\ stop_result' = "False"
            /\ halted' = halted
    /\ UNCHANGED <<scheduler_thread, sched_pc, min_interval, max_interval,
                   next_interval, tweeted, caught>>
    /\ UNCHANGED <<queueVars, netVars, authVars, now, trackVars, storeVars,
                   retryVars, requestVars, denyVars>>

\* _scheduler_loop, lines 92-95: the flag is set, then TwitterPost(auth)
\* raises out of the thread when the session is not authenticated
LoopEnter(t) ==
    /\ sched_pc[t] = "start"
    /\ scheduler_running' = TRUE
    /\ sched_pc' = [sched_pc EXCEPT
                        ![t] = IF Authenticated THEN "first" ELSE "died"]
    /\ UNCHANGED <<scheduler_thread, min_interval, max_interval,
                   next_interval, sched_calls, start_result, stop_result,
                   createdSinceStop, tweeted, caught, halted>>
    /\ UNCHANGED <<queueVars, netVars, authVars, now, trackVars, storeVars,
                   retryVars, requestVars, denyVars>>

\* a loop whose thread an exception of content_generator or create_tweet
\* ends
RaisedOutOfLoop(pc) == "died"

\* lines 105-106 and 126-130: except Exception logs the error, and the
\* loop goes on where the handler leaves it
CaughtInLoop(pc) == pc

\* the bot's tweets that mentions reply to, as ids the platform gives: the
\* ids not given yet, and none once they are used up (the tweet then has
\* an id no mention refers to)
GivenId(done) == OriginalIds \ done

\* content_generator() and poster.create_tweet(tweet_text) of one loop
\* thread: the tweet is posted, or one of the two raises
GenerateAndPost(t, posted_pc, raised_pc) ==
    \E raises \in BOOLEAN :
        IF raises
        THEN /\ sched_pc' = [sched_pc EXCEPT ![t] = CaughtInLoop(raised_pc)]
             /\ caught' = TRUE
             /\ UNCHANGED tweeted
        ELSE /\ sched_pc' = [sched_pc EXCEPT ![t] = posted_pc]
             /\ \E x \in (IF GivenId(tweeted) = {} THEN {NoId}
                          ELSE GivenId(tweeted)) :
                    tweeted' = tweeted \cup ({x} \ {NoId})
             /\ UNCHANGED caught

\* lines 99-106: the initial tweet, generated and posted or failing with an
\* exception that is logged
LoopFirstTweet(t) ==
    /\ sched_pc[t] = "first"
    /\ GenerateAndPost(t, "test", "test")
    /\ UNCHANGED <<scheduler_running, scheduler_thread, min_interval,
                   max_interval, next_interval, sched_calls, start_result,
                   stop_result, createdSinceStop, halted>>
    /\ UNCHANGED <<queueVars, netVars, authVars, now, trackVars, storeVars,
                   retryVars, requestVars, denyVars>>

\* lines 109-118: the while test, then the interval is computed and the
\* sleep begins; line 136 when the flag is down
LoopTest(t) ==
    /\ sched_pc[t] = "test"
    /\ IF scheduler_running
       THEN /\ \E r \in 0..SampleSteps :
                    next_interval' = CalculateNextInterval(min_interval,
                                                           max_interval, r)
            /\ sched_pc' = [sched_pc EXCEPT ![t] = "sleep"]
       ELSE /\ sched_pc' = [sched_pc EXCEPT ![t] = "stopped"]
            /\ UNCHANGED next_interval
    /\ UNCHANGED <<scheduler_running, scheduler_thread, min_interval,
                   max_interval, sched_calls, start_result, stop_result,
                   createdSinceStop, tweeted, caught, halted>>
    /\ UNCHANGED <<queueVars, netVars, authVars, now, trackVars, storeVars,
                   retryVars, requestVars, denyVars>>

\* lines 118-130: the sleep ends, content_generator and create_tweet are
\* called; when one of them raises the five-minute sleep begins
LoopTweet(t) ==
    /\ sched_pc[t] = "sleep"
    /\ GenerateAndPost(t, "test", "cooldown")
    /\ UNCHANGED <<scheduler_running, scheduler_thread, min_interval,
                   max_interval, next_interval, sched_calls, start_result,
                   stop_result, createdSinceStop, halted>>
    /\ UNCHANGED <<queueVars, netVars, authVars, now, trackVars, storeVars,
                   retryVars, requestVars, denyVars>>

\* line 130: the five-minute sleep ends
LoopCooldownEnd(t) ==
    /\ sched_pc[t] = "cooldown"
    /\ sched_pc' = [sched_pc EXCEPT ![t] = "test"]
    /\ UNCHANGED <<scheduler_running, scheduler_thread, min_interval,
                   max_interval, next_interval, sched_calls, start_result,
                   stop_result, createdSinceStop, tweeted, caught,
                   halted>>
    /\ UNCHANGED <<queueVars, netVars, authVars, now, trackVars, storeVars,
                   retryVars, requestVars, denyVars>>

NextScheduler ==
    \/ StartScheduler
    \/ StopScheduler
    \/ \E t \in SchedThreads : LoopEnter(t)
    \/ \E t \in SchedThreads : LoopFirstTweet(t)
    \/ \E t \in SchedThreads : LoopTest(t)
    \/ \E t \in SchedThreads : LoopTweet(t)
    \/ \E t \in SchedThreads : LoopCooldownEnd(t)

\* the session start_scheduler is given: one that logged in, or one that
\* did not
SessionChoices ==
    {[cookies |-> {"auth_token", "ct0", "twid"}, csrf_token |-> "tok",
      username |-> "username"],
     [cookies |-> {}, csrf_token |-> "None", username |-> "None"]}

InitScheduler ==
    /\ InitQueue
    /\ direct = [s \in Submitters |-> FALSE]
    /\ \E session \in SessionChoices :
        /\ cookies = session.cookies
        /\ csrf_token = session.csrf_token
        /\ username = session.username
        /\ user_id = session.username
    /\ lpc = "done"
    /\ login_result = IF Authenticated THEN "True" ELSE "False"
    /\ cache = NoCache
    /\ now = 0
    /\ email = TRUE
    /\ two_factor_secret = TRUE
    /\ flow_data = NoFlow
    /\ iteration = 0
    /\ attempt_2fa = 0
    /\ flowRequests = 0
    /\ guestRequests = 0
    /\ callCache = NoCache
    /\ callTime = 0
    /\ InitTrack
    /\ InitStore
    /\ \E settings \in IntervalSettings : InitSched(settings)
    /\ InitRetry("none")
    /\ InitRequest
    /\ InitDeny

SpecScheduler == InitScheduler /\ [][NextScheduler]_vars

(***************************************************************************)
(* The integration as start_twitter_integration (cli.py) leaves it: the    *)
(* session logged in, start_scheduler called once with the default         *)
(* intervals, and the mentions loop calling check_mentions again and       *)
(* again.  The two loops run side by side.                                 *)
(***************************************************************************)
InitIntegration ==
    /\ InitQueue
    /\ direct = [s \in Submitters |-> FALSE]
    /\ cookies = essential_cookies
    /\ csrf_token = "tok"
    /\ username = "username"
    /\ user_id = "username"
    /\ lpc = "done"
    /\ login_result = "True"
    /\ cache = NoCache
    /\ now = 0
    /\ email = TRUE
    /\ two_factor_secret = TRUE
    /\ flow_data = NoFlow
    /\ iteration = 0
    /\ attempt_2fa = 0
    /\ flowRequests = 0
    /\ guestRequests = 0
    /\ callCache = NoCache
    /\ callTime = 0
    /\ InitTrack
    /\ InitStore
    /\ scheduler_running = FALSE
    /\ scheduler_thread = 1
    /\ sched_pc = [t \in SchedThreads |-> IF t = 1 THEN "start" ELSE "none"]
    /\ min_interval = DefaultSettings[1]
    /\ max_interval = DefaultSettings[2]
    /\ next_interval = NoInterval
    /\ sched_calls = 1
    /\ start_result = 1
    /\ stop_result = "none"
    /\ createdSinceStop = 1
    /\ tweeted = {}
    /\ caught = FALSE
    /\ halted = {}
    /\ InitRetry("none")
    /\ InitRequest
    /\ InitDeny

NextIntegration ==
    \/ \E t \in SchedThreads : LoopEnter(t)
    \/ \E t \in SchedThreads : LoopFirstTweet(t)
    \/ \E t \in SchedThreads : LoopTest(t)
    \/ \E t \in SchedThreads : LoopTweet(t)
    \/ \E t \in SchedThreads : LoopCooldownEnd(t)
    \/ CheckMentionsFetch
    \/ CheckMentionsLoop
    \/ GenerateReply
    \/ CreateTweet
    \/ Tick

SpecIntegration == InitIntegration /\ [][NextIntegration]_vars

(***************************************************************************)
(* fetch_mentions (mentions.py) on the search timeline the platform        *)
(* returns for "@<username>", for a session that a full login or the       *)
(* cookie cache produced, followed by the processing of what it returns.   *)
(***************************************************************************)
\* the account's numeric id on the platform, as the string the timeline
\* carries in user_id_str; a handle is not a string of this form
PlatformId(handle) ==
    IF handle = bot_username THEN "1001"
    ELSE IF handle = "alice" THEN "1002"
    ELSE "1003"

\* the tweets the search can return: a user's reply to the bot's tweet, and
\* a tweet of the bot's own account that names its handle
Timeline ==
    {[id |-> 18, user_id_str |-> PlatformId("alice"), username |-> "alice",
      in_reply_to |-> 11],
     [id |-> 21, user_id_str |-> PlatformId(bot_username),
      username |-> bot_username, in_reply_to |-> NoId]}

\* the ids of the tweets the bot's account wrote
OwnIds == {tw.id : tw \in {o \in Timeline : o.username = bot_username}}

\* line 332: tweet.get("user_id_str") == self.auth.user_id
SkippedAsOwn(tw, uid) == tw.user_id_str = uid

\* lines 313-361: the mention dicts of the entries that are not skipped
ParseTimeline(entries, uid) ==
    {[id |-> tw.id, username |-> tw.username, in_reply_to |-> tw.in_reply_to] :
        tw \in {o \in entries : ~SkippedAsOwn(o, uid)}}

\* check_mentions up to its loop, with fetch_mentions reading a timeline
FetchMentions ==
    /\ mpc = "idle"
    /\ calls < MaxCalls
    /\ calls' = calls + 1
    /\ \E entries \in SUBSET Timeline :
        LET S == ParseTimeline(entries, user_id) IN
        /\ pending' = SortById(S)
        /\ fetched' = Ids(S)
        /\ repeated' = (calls > 0 /\ Ids(S) = fetched)
    /\ processed_count' = 0
    /\ generated' = 0
    /\ posted' = 0
    /\ appended' = 0
    /\ skipped' = 0
    /\ mention' = NoMention
    /\ thread_id' = NoThread
    /\ mpc' = "loop"
    /\ UNCHANGED <<conversations, conversations_file, processed_tweet_ids,
                   last_checked_id, mentions_cache, replies, now>>
    /\ UNCHANGED <<queueVars, netVars, authVars, restVars>>

NextFetch ==
    \/ FetchMentions
    \/ CheckMentionsLoop
    \/ GenerateReply
    \/ CreateTweet
    \/ Tick

\* the sessions login() reports as logged in and MentionsHandler accepts:
\* the full flow sets user_id to the username (auth.py:630), the cache
\* path leaves it None (auth.py:485-493)
LoggedInUserIds == {"username", "None"}

InitFetch ==
    /\ InitQueue
    /\ direct = [s \in Submitters |-> FALSE]
    /\ cookies = essential_cookies
    /\ csrf_token = "tok"
    /\ username = "username"
    /\ user_id \in LoggedInUserIds
    /\ lpc = "done"
    /\ login_result = "True"
    /\ cache = NoCache
    /\ now = 0
    /\ email = TRUE
    /\ two_factor_secret = TRUE
    /\ flow_data = NoFlow
    /\ iteration = 0
    /\ attempt_2fa = 0
    /\ flowRequests = 0
    /\ guestRequests = 0
    /\ callCache = NoCache
    /\ callTime = 0
    /\ InitTrack
    /\ InitRest

SpecFetch == InitFetch /\ [][NextFetch]_vars

(***************************************************************************)
(* The mentions checker (mentions.py): start_mentions_checker,             *)
(* stop_mentions_checker and the _mentions_loop threads, for a session     *)
(* that logged in or did not.  One check_mentions call of a loop is one    *)
(* step here; its inside is SpecMentions.                                  *)
(***************************************************************************)
\* the thread is inside the while loop of _mentions_loop
Polling(t) == mentions_pc[t] \in {"test", "check", "sleep"}

\* start_mentions_checker: a thread is created and started; the function
\* reads no flag, and its _mentions_thread is a local name
StartMentionsChecker ==
    /\ checker_calls < MaxCheckerCalls
    /\ checker_calls' = checker_calls + 1
    /\ LET t == CHOOSE u \in MentionThreads :
                    /\ mentions_pc[u] = "none"
                    /\ \A v \in MentionThreads :
                            mentions_pc[v] = "none" => u <= v IN
        mentions_pc' = [mentions_pc EXCEPT ![t] = "start"]
    /\ UNCHANGED <<mentions_running, tpc, tops, writtenBy, saved>>
    /\ UNCHANGED <<queueVars, netVars, authVars, now, trackVars, schedVars,
                   retryVars, requestVars, denyVars>>

\* stop_mentions_checker: the flag goes down if it was up
StopMentionsChecker ==
    /\ checker_calls < MaxCheckerCalls
    /\ checker_calls' = checker_calls + 1
    /\ mentions_running' = FALSE
    /\ UNCHANGED <<mentions_pc, tpc, tops, writtenBy, saved>>
    /\ UNCHANGED <<queueVars, netVars, authVars, now, trackVars, schedVars,
                   retryVars, requestVars, denyVars>>

\* _mentions_loop, lines 472-476: the flag is set, then MentionsHandler(auth)
\* raises out of the thread when the session is not authenticated
MentionsLoopEnter(t) ==
    /\ mentions_pc[t] = "start"
    /\ mentions_running' = TRUE
    /\ mentions_pc' = [mentions_pc EXCEPT
                            ![t] = IF Authenticated THEN "test" ELSE "died"]
    /\ UNCHANGED <<checker_calls, tpc, tops, writtenBy, saved>>
    /\ UNCHANGED <<queueVars, netVars, authVars, now, trackVars, schedVars,
                   retryVars, requestVars, denyVars>>

\* line 479, while _mentions_running, and line 499 when the flag is down
MentionsLoopTest(t) ==
    /\ mentions_pc[t] = "test"
    /\ mentions_pc' = [mentions_pc EXCEPT
                            ![t] = IF mentions_running THEN "check"
                                   ELSE "stopped"]
    /\ UNCHANGED <<mentions_running, checker_calls, tpc, tops, writtenBy,
                   saved>>
    /\ UNCHANGED <<queueVars, netVars, authVars, now, trackVars, schedVars,
                   retryVars, requestVars, denyVars>>

\* lines 481-493: handler.check_mentions(agent), which returns a count
\* whatever happens inside it, then the sleep begins
MentionsLoopCheck(t) ==
    /\ mentions_pc[t] = "check"
    /\ mentions_pc' = [mentions_pc EXCEPT ![t] = "sleep"]
    /\ UNCHANGED <<mentions_running, checker_calls, tpc, tops, writtenBy,
                   saved>>
    /\ UNCHANGED <<queueVars, netVars, authVars, now, trackVars, schedVars,
                   retryVars, requestVars, denyVars>>

\* line 493: time.sleep(interval) ends
MentionsLoopWake(t) ==
    /\ mentions_pc[t] = "sleep"
    /\ mentions_pc' = [mentions_pc EXCEPT ![t] = "test"]
    /\ UNCHANGED <<mentions_running, checker_calls, tpc, tops, writtenBy,
                   saved>>
    /\ UNCHANGED <<queueVars, netVars, authVars, now, trackVars, schedVars,
                   retryVars, requestVars, denyVars>>

NextChecker ==
    \/ StartMentionsChecker
    \/ StopMentionsChecker
    \/ \E t \in MentionThreads : MentionsLoopEnter(t)
    \/ \E t \in MentionThreads : MentionsLoopTest(t)
    \/ \E t \in MentionThreads : MentionsLoopCheck(t)
    \/ \E t \in MentionThreads : MentionsLoopWake(t)

SpecChecker == InitScheduler /\ [][NextChecker]_vars

(***************************************************************************)
(* Claims about the RequestQueue                                           *)
(***************************************************************************)

\* C1: at no time are two submitted tasks executing simultaneously: at most
\* one worker thread is inside the processing loop of the queue, whatever
\* the interleaving of submitters with worker start-up and exit.
C1_OneWorkerInLoop ==
    /\ Cardinality({w \in TaskIds : wpc[w] \in InLoop}) <= 1
    /\ Cardinality({wreq[w] : w \in {v \in TaskIds : wpc[v] = "running"}}) <= 1

\* a task is executing while a second worker thread, started by a concurrent
\* add(), has not yet looked at the processing flag
C1_Witness ==
    \E w1, w2 \in TaskIds :
        /\ wpc[w1] = "running"
        /\ wpc[w2] = "entry"
        /\ \A s \in Submitters : spc[s] = "waiting"

\* C2: tasks begin execution in exactly the order in which add() appended
\* them: the task a worker is about to start for the first time is the
\* earliest appended task that has not started yet.
C2_StartInAppendOrder ==
    \A w \in TaskIds :
        (wpc[w] = "call" /\ attempts[wreq[w][1]] = 0)
            => (unstarted # <<>> /\ Head(unstarted) = wreq[w])

\* two tasks of different threads are pending and the earlier is about to
\* start
C2_Witness ==
    \E w \in TaskIds :
        /\ wpc[w] = "call"
        /\ Len(unstarted) >= 2
        /\ unstarted[1][1] # unstarted[2][1]
        /\ wreq[w] = unstarted[1]

\* C3: a task whose callable raises is attempted again, up to 3 attempts,
\* and only after the attempts are exhausted does add() raise the error to
\* the submitter.
C3_ErrorRaisedOnlyAfterRetries ==
    \A s \in Submitters : delivered[s] = "raised" => attempts[s] = 3

\* C4: add() returns only after its task has finished executing, and under
\* fair scheduling with terminating tasks every add() call returns.
C4_AddReturnsAfterItsTask ==
    /\ [](\A s \in Submitters :
            delivered[s] # "none" =>
                /\ completed[s]
                /\ attempts[s] >= 1
                /\ ~\E w \in TaskIds : wpc[w] = "running" /\ wreq[w] = cur[s])
    /\ \A s \in Submitters : (spc[s] = "waiting") ~> (spc[s] = "idle")

\* add() has returned for a task that was appended after an earlier worker
\* had switched itself off: more calls were made than there are threads, and
\* the call started a worker thread of its own
C4_Witness ==
    \E s \in Submitters :
        /\ delivered[s] # "none"
        /\ cur[s][2] > NumSubmitters
        /\ wpc[cur[s][2]] \in InLoop

\* C5: every network call of the components is executed inside a task run
\* by the RequestQueue worker, so no network call overlaps a queue task in
\* execution.
C5_NoCallOverlapsQueueTask ==
    \A s \in Submitters :
        direct[s] => ~\E w \in TaskIds : wpc[w] = "running"

(***************************************************************************)
(* Claims about login                                                      *)
(***************************************************************************)

\* C6: login() terminates after handling at most 10 subtask iterations: the
\* loop never begins an 11th, every iteration sends at most the three
\* attempts of a 2FA answer and otherwise at most one flow request, so a
\* server that keeps returning AccountDuplicationCheck gets 10 answers and
\* no more, and login() returns True only for LoginSuccessSubtask (or the
\* cached session): a limit reached, or DenyLoginSubtask, gives False.
C6_LoginStopsAfterTenIterations ==
    /\ iteration <= 10
    /\ flowRequests <= 4 + 3 * iteration
    /\ ~two_factor_secret => flowRequests <= 4 + iteration
    /\ lpc = "done" => login_result \in {"True", "False"}
    /\ (lpc = "done" /\ guestRequests > 0 /\
            flow_data.subtask # "LoginSuccessSubtask")
        => login_result = "False"

\* with no email and no 2FA secret configured only AccountDuplicationCheck
\* is answered: the server returned it on all of 14 responses, and login()
\* has returned False after the 10th iteration
C6_Witness ==
    /\ lpc = "done"
    /\ ~email
    /\ ~two_factor_secret
    /\ iteration = 10
    /\ flowRequests = 14
    /\ flow_data = [subtask |-> "AccountDuplicationCheck", flow_token |-> TRUE]
    /\ login_result = "False"

\* C7: when login() is called with a cookie cache saved at most 12 hours
\* before that holds auth_token, ct0, twid and a CSRF token, it returns True
\* with the cached cookies and sends no guest-token or flow request; when the
\* cache is older than 12 hours it is not used: the cookies are cleared, the
\* guest token is fetched, and True is returned only after the flow requests.
C7_CachedSessionReuse ==
    LET age == callTime - callCache.timestamp IN
    (lpc # "idle" /\ callCache.present) =>
        /\ (/\ age <= 12 * 60 * 60
            /\ {"auth_token", "ct0", "twid"} \subseteq callCache.cookies_dict
            /\ callCache.csrf_token # "None")
            => /\ lpc = "done"
               /\ login_result = "True"
               /\ flowRequests = 0
               /\ guestRequests = 0
               /\ cookies = callCache.cookies_dict
               /\ csrf_token = callCache.csrf_token
        /\ age > 12 * 60 * 60
            => /\ lpc = "guest" => (cookies = {} /\ guestRequests = 0)
               /\ lpc # "guest" => guestRequests = 1
               /\ login_result = "True" => flowRequests >= 4

\* login() has returned True from a complete cache saved exactly 12 hours
\* before
C7_Witness ==
    /\ lpc = "done"
    /\ callCache.present
    /\ callTime - callCache.timestamp = 12 * 60 * 60
    /\ login_result = "True"
    /\ flowRequests = 0
    /\ username = "username"

(***************************************************************************)
(* Claims about mentions and the conversation tracker                      *)
(***************************************************************************)

\* C8: a check_mentions() call that is given the same mentions as the call
\* before it processes nothing: it counts 0, calls generate_reply for none,
\* posts nothing and adds nothing to a thread.
C8_RepeatedCallProcessesNothing ==
    repeated =>
        /\ processed_count = 0
        /\ generated = 0
        /\ posted = 0
        /\ appended = 0

\* C9: handling a fetched mention whose id is in the processed set changes
\* nothing: no reply is generated or posted, and the tracker's threads, the
\* processed set, last_checked_id, the conversations file and the mentions
\* cache file stay as they are.
C9_ProcessedMentionIsNoOp ==
    [][(/\ mpc = "loop"
        /\ pending # <<>>
        /\ Head(pending).id \in processed_tweet_ids
        /\ pending' = Tail(pending))
        => /\ mpc' = "loop"
           /\ generated' = generated
           /\ posted' = posted
           /\ appended' = appended
           /\ processed_count' = processed_count
           /\ UNCHANGED <<conversations, conversations_file,
                          processed_tweet_ids, last_checked_id,
                          mentions_cache>>]_vars

\* a call has skipped a mention it replied to in an earlier call, and has
\* gone on to add another mention to the tracker
C9_Witness ==
    /\ skipped > 0
    /\ mpc = "generate"
    /\ processed_tweet_ids # {}
    /\ mention.id \notin processed_tweet_ids

\* C10: when add_mention is given a mention whose reply-to id is the tweet
\* id of a message of a stored thread, the mention is appended to one such
\* thread, no other thread changes and none is created; when the reply-to
\* id is absent or matches no thread key and no message, exactly one thread
\* is added to the store, holding that mention as its only message, and the
\* threads stored before stay as they were.
C10_AddMentionFindsOrCreatesThread ==
    [][(mpc = "loop" /\ mpc' = "generate") =>
        LET m == Head(pending)
            stored == IF conversations_file # <<>> THEN conversations_file
                      ELSE conversations["mentions"]
            after == conversations'["mentions"]
            message == [tweet_id |-> m.id, sender |-> m.username,
                        is_reply_to |-> m.in_reply_to]
            holders == {i \in DOMAIN stored :
                            HasMessage(stored[i], m.in_reply_to)}
        IN  IF m.in_reply_to # NoId /\ holders # {}
            THEN /\ Len(after) = Len(stored)
                 /\ \E i \in holders :
                        /\ after[i].key = stored[i].key
                        /\ after[i].messages =
                                Append(stored[i].messages, message)
                        /\ \A j \in DOMAIN stored \ {i} :
                                after[j] = stored[j]
            ELSE IF \/ m.in_reply_to = NoId
                    \/ ConversationKey(m.in_reply_to) \notin Keys(stored)
            THEN /\ Len(after) = Len(stored) + 1
                 /\ \A i \in DOMAIN stored : after[i] = stored[i]
                 /\ after[Len(after)].key \notin Keys(stored)
                 /\ after[Len(after)].messages = <<message>>
            ELSE TRUE]_vars

\* the thread of a store with a given key
ThreadOf(store, key) == store[KeyIndex(store, key)]

\* C11: after _save_conversations the file holds every thread that was in
\* the file just before and every thread of the memory, the memory's
\* version where a key is in both, and the memory equals what was written
C11_SaveWritesUnion ==
    saved.by # "none" =>
        /\ Keys(conversations_file) = Keys(saved.file) \cup Keys(saved.mem)
        /\ \A key \in Keys(saved.mem) :
                ThreadOf(conversations_file, key) = ThreadOf(saved.mem, key)
        /\ \A key \in Keys(saved.file) \ Keys(saved.mem) :
                ThreadOf(conversations_file, key) = ThreadOf(saved.file, key)
        /\ conversations[saved.by] = conversations_file

\* a save that found a thread in the file that its memory did not hold, and
\* a thread in both with different messages
C11_Witness ==
    /\ saved.by # "none"
    /\ Keys(saved.file) \ Keys(saved.mem) # {}
    /\ \E key \in Keys(saved.file) \cap Keys(saved.mem) :
            ThreadOf(saved.file, key) # ThreadOf(saved.mem, key)

\* C12: a save by one tracker instance leaves in the file every message
\* that the other instance has written to it
C12_NoLostUpdate ==
    [][\A k \in Trackers :
        (tpc[k] = "save" /\ tpc'[k] = "idle") =>
            \A j \in Trackers \ {k} :
                (writtenBy[j] \ writtenBy[k]) \cap Items(conversations_file)
                    \subseteq Items(conversations_file')]_vars

\* C13: the interval _calculate_next_interval returns lies between the
\* configured minimum and the effective maximum, in seconds: within
\* [10, 20] minutes for min=10 and max=20, and up to min+120 minutes when
\* the configured maximum is not above the minimum
C13_IntervalWithinBounds ==
    next_interval # NoInterval =>
        /\ min_interval * 60 <= next_interval
        /\ max_interval > min_interval => next_interval <= max_interval * 60
        /\ max_interval <= min_interval
                => next_interval <= (min_interval + 120) * 60
        /\ (min_interval = 10 /\ max_interval = 20)
                => (600 <= next_interval /\ next_interval <= 1200)

\* with a maximum not above the minimum, the longest interval drawn is
\* min+120 minutes
C13_Witness ==
    /\ max_interval <= min_interval
    /\ next_interval = (min_interval + 120) * 60

\* C14: start_scheduler calls with no stop_scheduler call in between create
\* one loop thread only
C14_SecondStartCreatesNoThread == createdSinceStop <= 1

\* a step that is a stop_scheduler call
StopStep == sched_calls' = sched_calls + 1 /\ stop_result' # "none"

\* C15: stop_scheduler returns False, changing nothing, exactly when no
\* scheduler loop is alive, and with a loop alive it returns True and
\* leaves the running flag down
C15_StopReportsRunningState ==
    [][StopStep =>
        /\ (stop_result' = "False") <=> ~(\E t \in SchedThreads : Alive(t))
        /\ stop_result' = "False"
                => UNCHANGED <<scheduler_running, scheduler_thread, sched_pc>>
        /\ (\E t \in SchedThreads : Alive(t))
                => (stop_result' = "True" /\ ~scheduler_running')]_vars

\* C16: once stop_scheduler has returned True, and until start_scheduler is
\* called again, no loop thread generates and posts a tweet when its sleep
\* ends
C16_NoTweetAfterStop ==
    [][stop_result = "True" =>
        \A t \in SchedThreads :
            ~(sched_pc[t] = "sleep" /\ sched_pc'[t] # "sleep")]_vars

\* C17: login_with_retry calls login() at most max_attempts times, returns
\* True right after the first attempt that succeeds, sleeps between
\* attempts and not after the last, returns False when every attempt
\* failed, and makes its attempts whether or not the warm-up request failed
C17_RetryAttempts ==
    /\ logins <= max_attempts
    /\ logins = attempt
    /\ rpc = "done" =>
        /\ logins >= 1
        /\ retry_result = "True"
                => (login_result = "True" /\ delays = logins - 1)
        /\ retry_result = "False"
                => /\ login_result = "False"
                   /\ logins = max_attempts
                   /\ delays = max_attempts - 1
        /\ retry_result \in {"True", "False"}
    /\ (rpc = "login" /\ lpc # "done") => delays = logins - 1

\* the warm-up request failed, the first attempt failed, the second
\* succeeded
C17_Witness ==
    /\ rpc = "done"
    /\ warmup_failed
    /\ retry_result = "True"
    /\ logins = 2
    /\ delays = 1

\* C18: the cookies held when an attempt begins, from the warm-up request
\* or from the attempt before, are still held when the attempt sends its
\* first flow request
C18_CookiesKeptBetweenAttempts ==
    (rpc = "login" /\ lpc = "init") => heldAtCall \subseteq cookies

\* C19: a make_request call answered with 403 or 429 gets its recovery step
\* and is then attempted again before add() gives the submitter anything
C19_RetriedAfterRecovery ==
    \A s \in Submitters :
        (completed[s] /\ status[s] \in {"403", "429"}) =>
            /\ recovery[s] = (IF status[s] = "403" THEN "guest token"
                              ELSE "sleep")
            /\ delivered[s] # "none" => attempts[s] >= 2

\* C20: when login() reads DenyLoginSubtask it has ended, with failure and
\* with no flow request sent after the one that was answered so, and what
\* it returns to its caller carries the server's message
C20_DenyMessageReachesCaller ==
    error_message # "None" =>
        /\ lpc = "done"
        /\ login_result = "False"
        /\ flow_data.subtask = "DenyLoginSubtask"
        /\ ReturnedMessage(login_result) = error_message

\* C21: a login() that ended with LoginSuccessSubtask has written the
\* cookies, the CSRF token and the time to the cache, and a login() called
\* with a cache written at most 12 hours before returns True from it with
\* no guest-token and no flow request
C21_SuccessIsCachedAndReused ==
    /\ (lpc = "done" /\ login_result = "True" /\ flowRequests > 0)
            => cache = SaveCookiesToCache(cookies, csrf_token, now)
    /\ (/\ lpc # "idle"
        /\ callCache.present
        /\ callTime - callCache.timestamp <= 12 * 60 * 60)
            => /\ lpc = "done"
               /\ login_result = "True"
               /\ flowRequests = 0
               /\ guestRequests = 0

(***************************************************************************)
(* Claims about the two loops of the integration                           *)
(***************************************************************************)
\* the pcs of a scheduler thread that is inside its loop
InSchedulerLoop == {"first", "test", "sleep", "cooldown"}

\* C22: an exception raised by content generation, posting, the fetch or
\* the processing of one mention ends neither loop: a scheduler thread
\* that generated and posted stays in its loop, in the five-minute wait or
\* at the loop test; a check_mentions call whose reply generation or
\* posting raised goes on with the mentions it has left, and returns only
\* after every fetched mention was skipped as processed or handed to
\* process_mention
C22_LoopsGoOnAfterException ==
    [][/\ \A t \in SchedThreads :
            /\ sched_pc[t] \in InSchedulerLoop
                    => sched_pc'[t] \in InSchedulerLoop
            /\ (sched_pc[t] \in {"first", "sleep"}
                    /\ sched_pc'[t] # sched_pc[t])
                    => sched_pc'[t] \in {"test", "cooldown"}
       /\ (mpc \in {"generate", "post"} /\ mpc' # mpc)
            => /\ mpc' \in {"post", "loop"}
               /\ pending' = pending
       /\ (mpc = "loop" /\ mpc' = "idle")
            => /\ pending = <<>>
               /\ appended + skipped = Cardinality(fetched)]_vars

\* the scheduler thread sleeps again after an exception it caught; the
\* first check_mentions call added a mention at second 0 and replied to
\* none, and the second call, whose first reply generation raised, has
\* the reply to its second mention generated
C22_Witness ==
    /\ caught
    /\ sched_pc[1] = "sleep"
    /\ calls = 2
    /\ now = 1
    /\ mpc = "post"
    /\ generated = 2
    /\ posted = 0
    /\ processed_tweet_ids = {}
    /\ \E i \in DOMAIN conversations_file :
            /\ conversations_file[i].key.kind = "mention"
            /\ conversations_file[i].key.t = 0

\* s is a prefix of t
IsPrefix(s, t) == Len(s) <= Len(t) /\ SubSeq(t, 1, Len(s)) = s

\* C23: the messages of a thread are append-only: whatever a step does to
\* a tracker, the message list each of its threads had before the step is
\* a prefix of the list the thread has after it
C23_MessagesAppendOnly ==
    [][\A k \in Trackers :
        \A key \in Keys(conversations[k]) \cap Keys(conversations'[k]) :
            IsPrefix(ThreadOf(conversations[k], key).messages,
                     ThreadOf(conversations'[k], key).messages)]_vars

\* C24: once the scheduler loop has posted a tweet with id x, the
\* conversations file and the tracker of the mentions handler hold the
\* thread conversation_x
C24_PostedTweetHasThread ==
    \A x \in tweeted :
        /\ ConversationKey(x) \in Keys(conversations_file)
        /\ ConversationKey(x) \in Keys(conversations["mentions"])

(***************************************************************************)
(* Claims about the session and the queue worker                           *)
(***************************************************************************)
\* C25: while a queue worker thread is alive, a step that changes the
\* cookie set or the CSRF token is the end of a task attempt run by a
\* worker
C25_OnlyQueueTasksModifySession ==
    [][(/\ cookies' # cookies \/ csrf_token' # csrf_token
        /\ \E w \in TaskIds : wpc[w] # "none")
            => \E w \in TaskIds : wpc[w] = "running" /\ wpc'[w] # "running"]_vars

\* C26: a request the worker begins to execute while the session has a
\* CSRF token carries the value the token has at that moment, whoever
\* built the request and whatever was executed ahead of it
C26_RequestCarriesCurrentToken ==
    [][\A w \in TaskIds :
        (wpc[w] = "call" /\ wpc'[w] = "running" /\ csrf_token # "None")
            => HeadersSent(built[wreq[w][1]], ct0_value) = ct0_value]_vars

(***************************************************************************)
(* Claims about the delays of the RequestQueue                             *)
(***************************************************************************)
\* C27: when a worker starts to execute a task and a task has ended
\* before, _add_natural_delay has slept since that task ended, also when
\* the worker is a new thread started for this task
C27_DelayBetweenTasks ==
    [][\A w \in TaskIds :
        (wpc[w] = "call" /\ wpc'[w] = "running" /\ retry_count[w] = 0)
            => delayed # "no"]_vars

\* the second task, submitted by the thread of the first one after that
\* one was executed, is run by the worker thread started for it, after
\* the delay of the first worker
C27_Witness ==
    \E s \in Submitters :
        /\ wreq[2] = <<s, 2>>
        /\ wpc[2] = "running"
        /\ wpc[1] = "none"
        /\ delayed = "yes"
        /\ \A o \in Submitters \ {s} : cur[o] = NoTask

\* C28: when a task execution has ended in an error the consecutive-error
\* counter is at least 1 during the delay that follows it, so that the
\* delay has the extra term min(0.5 x counter, 5.0)
C28_CounterCountsFailedTasks ==
    \A w \in TaskIds :
        (wpc[w] = "delay" /\ cur[wreq[w][1]] = wreq[w] /\ error[wreq[w][1]])
            => consecutive_errors >= 1

(***************************************************************************)
(* Claims about the challenges of the login flow                           *)
(***************************************************************************)
\* C29: _handle_two_factor_auth submits the code at most 3 times, each
\* submission after a failed one with a code generated after that
\* failure, and a third failure ends login() with False
C29_TwoFactorThreeCodes ==
    /\ Len(submitted) <= max_attempts_2fa
    /\ \A i \in DOMAIN submitted : submitted[i] = i - 1
    /\ lpc = "twofa" => /\ two_factor_secret
                        /\ Len(submitted) = attempt_2fa
                        /\ attempt_2fa < max_attempts_2fa
    /\ Len(submitted) = max_attempts_2fa
            => (lpc = "done" /\ login_result = "False")

\* three submissions failed, each with a code of its own, and login()
\* returned False
C29_Witness ==
    /\ submitted = <<0, 1, 2>>
    /\ lpc = "done"
    /\ login_result = "False"
    /\ rpc = "none"

\* lines 590-592 and 619-621: the subtask asks for a credential login()
\* was not given
Unanswerable(st) ==
    \/ st = "LoginAcid" /\ ~email
    \/ st = "LoginTwoFactorAuthChallenge" /\ ~two_factor_secret

\* C30: when the loop of login() reads LoginAcid and no email was given,
\* or LoginTwoFactorAuthChallenge and no secret was given, that step ends
\* login() with False: no flow request, no guest-token request, no retry
\* wait, and the clock has not moved
C30_MissingCredentialFailsAtOnce ==
    [][(/\ lpc = "loop"
        /\ LoopContinues(flow_data, iteration)
        /\ Unanswerable(flow_data.subtask))
            => /\ lpc' = "done"
               /\ login_result' = "False"
               /\ flowRequests' = flowRequests
               /\ guestRequests' = guestRequests
               /\ attempt_2fa' = attempt_2fa
               /\ now' = now]_vars

\* login() has returned False on the first subtask after the password, an
\* email verification it has no email for, with the four fixed flow
\* requests sent and no other
C30_Witness ==
    /\ lpc = "done"
    /\ login_result = "False"
    /\ flow_data.subtask = "LoginAcid"
    /\ ~email
    /\ iteration = 1
    /\ flowRequests = 4

(***************************************************************************)
(* Claims about what drives the login flow                                 *)
(***************************************************************************)
\* the subtask ids the subtask loop of login() has a branch for; none of
\* them is the id a fixed step answers ("UnknownSubtask" stands for every
\* other id, the ids of the fixed steps included)
LoopSubtasks ==
    {"DenyLoginSubtask", "LoginTwoFactorAuthChallenge",
     "AccountDuplicationCheck", "LoginAcid", "LoginSuccessSubtask"}

\* C31: every flow request login() sends after the initial flow_name=login
\* call answers the subtask the most recent response named: the JS
\* instrumentation, the username and the password are never sent in answer
\* to a response that named a terminal subtask or a challenge
C31_RequestAnswersNamedSubtask ==
    [][(lpc \in {"js", "user", "pass"} /\ flowRequests' = flowRequests + 1)
            => flow_data.subtask \notin LoopSubtasks]_vars

(***************************************************************************)
(* Claims about the participant of a thread                                *)
(***************************************************************************)
\* the thread holds a message some user sent to the bot
HasInbound(th) ==
    \E j \in DOMAIN th.messages : th.messages[j].sender # bot_username

\* C32: in every store, in memory and in the file, a thread add_mention
\* has appended an inbound mention to has a participant: its user field is
\* not null, whether the thread was found by its derived key or by the scan
\* of the stored message ids
C32_ThreadWithMentionHasUser ==
    /\ \A k \in Trackers : \A i \in DOMAIN conversations[k] :
            HasInbound(conversations[k][i])
                => conversations[k][i].user # "None"
    /\ \A i \in DOMAIN conversations_file :
            HasInbound(conversations_file[i])
                => conversations_file[i].user # "None"

(***************************************************************************)
(* Claims about the replies to a mention                                   *)
(***************************************************************************)
\* C33: for every inbound mention id at most one reply is ever posted,
\* whatever step of process_mention fails and whatever the post response
\* looks like
C33_AtMostOneReplyPerMention ==
    \A i, j \in DOMAIN replies : replies[i] = replies[j] => i = j

\* the positions (thread, message) of a store that hold tweet id x
Occurrences(store, x) ==
    UNION {{<<i, j>> : j \in {n \in DOMAIN store[i].messages :
                                    store[i].messages[n].tweet_id = x}} :
                i \in DOMAIN store}

\* C34: across the calls of check_mentions, those whose reply generation
\* or posting failed included, each inbound mention id occurs at most once
\* among the messages of all threads of the store, in the handler's memory
\* and in the file
C34_MentionStoredOnce ==
    \A m \in MentionUniverse :
        /\ Cardinality(Occurrences(conversations["mentions"], m.id)) <= 1
        /\ Cardinality(Occurrences(conversations_file, m.id)) <= 1

(***************************************************************************)
(* Claims about the number of loops                                        *)
(***************************************************************************)
\* C35: a scheduler loop that stop_scheduler has stopped terminates at its
\* next wake-up, whether or not start_scheduler has been called again
\* while it slept: when it tests the flag it leaves the loop, so it never
\* goes on beside a newer loop
C35_StoppedLoopTerminates ==
    [][\A t \in SchedThreads :
        (t \in halted /\ sched_pc[t] = "test" /\ sched_pc'[t] # "test")
            => sched_pc'[t] = "stopped"]_vars

\* C36: the running flag is True only while a scheduler loop thread is
\* alive: whenever the loop thread has terminated, for whatever reason, the
\* flag is False
C36_FlagOnlyWhileLoopAlive ==
    scheduler_running => \E t \in SchedThreads : Alive(t)

(***************************************************************************)
(* Claims about what a successful login leaves                             *)
(***************************************************************************)
\* C37: login() returns True only if the session then holds an auth_token
\* cookie and a CSRF token, on the cached-session path and on the full-flow
\* path
C37_LoggedInSessionIsAuthenticated ==
    (lpc = "done" /\ login_result = "True")
        => ("auth_token" \in cookies /\ csrf_token # "None")

\* C38: a call of start_mentions_checker made while a mentions loop is
\* running creates no second loop: no thread that did not exist before the
\* call exists after it
C38_StartWhileRunningCreatesNoLoop ==
    [][(/\ mentions_running
        /\ \E t \in MentionThreads : Polling(t)
        /\ checker_calls' = checker_calls + 1)
            => \A t \in MentionThreads :
                    mentions_pc[t] = "none" => mentions_pc'[t] = "none"]_vars

(***************************************************************************)
(* Claims about the persisted mentions record                              *)
(***************************************************************************)
\* C39: after every successful process_mention the cache file holds the
\* mention's id among its processed ids and a last-seen id equal to the
\* watermark in memory, which is the greatest mention id processed so far
C39_SavedWatermarkIsCurrent ==
    [][(mpc = "post" /\ processed_count' = processed_count + 1) =>
        /\ mention.id \in mentions_cache'.processed_ids
        /\ mentions_cache'.last_checked_id = last_checked_id'
        /\ \A id \in processed_tweet_ids' : id <= last_checked_id']_vars

(***************************************************************************)
(* Claims about the bot's own posts                                        *)
(***************************************************************************)
\* C40: the bot never processes or replies to a post of its own account:
\* no tweet the bot wrote is among the mentions fetch_mentions returned, is
\* the mention being processed or has got a reply, for a session of a full
\* login and for one restored from the cache
C40_NeverProcessesOwnPost ==
    /\ \A i \in DOMAIN pending : pending[i].id \notin OwnIds
    /\ mention.id \notin OwnIds
    /\ \A i \in DOMAIN replies : replies[i] \notin OwnIds

================================================================
